---- MODULE Spec2Model ----
(***************************************************************************)
(* Professor Al Gorithm (src/app.py): the session object                   *)
(* ProfessorAlGorithm, its remote/fallback fetches get_challenges and      *)
(* get_skills, challenge selection, and the phase guidance selector with   *)
(* its UI guardrail guide_phase.                                           *)
(*                                                                         *)
(* Python values are modelled as follows.                                  *)
(*  - a dict is a record of fixed shape with a field `keys`, the set of    *)
(*    keys the dict really has; a field whose key is absent holds a        *)
(*    placeholder that no operator reads without testing `keys` first      *)
(*    (reading it anyway is the KeyError of the code);                     *)
(*  - None for an optional challenge is the empty sequence, Some(c) is     *)
(*    <<c>>;                                                               *)
(*  - a string whose characters matter (user_input) is a sequence of       *)
(*    one-character strings; other strings are TLA+ strings;               *)
(*  - an f-string document is a record of the parts it interpolates.       *)
(***************************************************************************)
EXTENDS Integers, Sequences, FiniteSets, TLC

(***************************************************************************)
(* Bounds of the model.                                                    *)
(***************************************************************************)
NumTasks == 2       \* concurrent handler invocations (Gradio events)
MaxPad == 1         \* leading / trailing blanks of a generated user_input
MaxEndpoints == 2   \* length of the list of alternative endpoints
MaxWords == 2       \* words of a generated challenge description

(***************************************************************************)
(* Program constants.                                                      *)
(***************************************************************************)
MinInputLen == 10        \* guide_phase: len(user_input.strip()) < 10
ChallengeDisplayLimit == 5   \* _format_mcp_challenges: challenges[:5]
SkillDisplayLimit == 8       \* _format_mcp_skills: skills[:8]

Tasks == 1..NumTasks

VARIABLES
  MCP_SESSION_TOKEN,     \* TRUE iff the environment value is set (truthy)
  mcp_client,            \* TRUE iff the module-level mcp_client is truthy
  selected_challenge,    \* professor.selected_challenge: <<>> or <<c>>
  current_phase,         \* professor.current_phase
  available_challenges,  \* professor.available_challenges
  pc,                    \* pc[t]: where handler invocation t is suspended
  arg,                   \* arg[t]: the difficulty / category as passed
  local,                 \* local[t]: the validated difficulty / category
  mcp_data,              \* mcp_data[t]: the local mcp_data of the fetch
  ret,                   \* the value returned by the last completed handler
  session_id,            \* mcp_client.session_id: "None" or "public"
  endpoint,              \* mcp_client.endpoint
  MCP_ENDPOINTS_TO_TRY,  \* the module-level list of alternative endpoints
  call,                  \* call[t]: the _make_mcp_request invocation of task t
  listed,                \* listed[u]: the list user u's last get_challenges returned
  history                \* what has happened so far: a non-empty list fetched,
                         \* a select_challenge call succeeded

vars == <<MCP_SESSION_TOKEN, mcp_client, selected_challenge, current_phase,
          available_challenges, pc, arg, local, mcp_data, ret,
          session_id, endpoint, MCP_ENDPOINTS_TO_TRY, call, listed, history>>

client == <<session_id, endpoint, MCP_ENDPOINTS_TO_TRY, call>>

session == <<selected_challenge, current_phase, available_challenges>>

(***************************************************************************)
(* Challenge dicts.                                                        *)
(***************************************************************************)
FallbackKeys == {"id", "name", "description", "skills", "difficulty", "examples"}

Example(i, o) == [keys |-> {"input", "output"}, input |-> i, output |-> o]

\* ex['input'] and ex['output'] raise KeyError on an example without them
ExampleRaises(ex) == "input" \notin ex.keys \/ "output" \notin ex.keys

Challenge(id, name, description, skills, difficulty, examples) ==
  [keys |-> FallbackKeys, id |-> id, name |-> name,
   description |-> description, skills |-> skills,
   difficulty |-> difficulty, examples |-> examples, track |-> ""]

EasyChallenges ==
  << Challenge("two-sum", "Two Sum Problem",
       "Given an array of integers and a target sum, find two numbers that add up to the target.",
       <<"Hash tables", "Array traversal">>, "easy",
       <<Example("[2,7,11,15], target=9", "[0,1]"), Example("[3,2,4], target=6", "[1,2]")>>),
     Challenge("valid-parentheses", "Valid Parentheses",
       "Given a string containing just the characters '(', ')', '{', '}', '[' and ']', determine if the input string is valid.",
       <<"Stack data structure", "String processing">>, "easy",
       <<Example("()", "true"), Example("([)]", "false")>>),
     Challenge("palindrome-check", "Palindrome Check",
       "Determine if a given string reads the same forward and backward.",
       <<"Two pointers technique", "String manipulation">>, "easy",
       <<Example("racecar", "true"), Example("hello", "false")>>),
     Challenge("merge-sorted-lists", "Merge Two Sorted Lists",
       "Merge two sorted linked lists and return it as a new sorted list.",
       <<"Linked lists", "Merge algorithms">>, "easy",
       <<Example("[1,2,4], [1,3,4]", "[1,1,2,3,4,4]"), Example("[], [0]", "[0]")>>),
     Challenge("remove-duplicates", "Remove Duplicates",
       "Remove duplicates from a sorted array in-place.",
       <<"Two pointers", "Array manipulation">>, "easy",
       <<Example("[1,1,2]", "[1,2]"), Example("[0,0,1,1,1,2,2,3,3,4]", "[0,1,2,3,4]")>>) >>

MediumChallenges ==
  << Challenge("maximum-subarray", "Maximum Subarray (Kadane's Algorithm)",
       "Find the contiguous subarray within a one-dimensional array that has the largest sum.",
       <<"Dynamic programming", "Optimization">>, "medium",
       <<Example("[-2,1,-3,4,-1,2,1,-5,4]", "6 (subarray [4,-1,2,1])"), Example("[1]", "1")>>),
     Challenge("longest-substring", "Longest Substring Without Repeating Characters",
       "Find the length of the longest substring without repeating characters.",
       <<"Sliding window", "Hash maps">>, "medium",
       <<Example("abcabcbb", "3 (abc)"), Example("bbbbb", "1 (b)")>>) >>

HardChallenges ==
  << Challenge("median-two-arrays", "Median of Two Sorted Arrays",
       "Find the median of two sorted arrays with optimal time complexity.",
       <<"Binary search", "Divide and conquer">>, "hard",
       <<Example("[1,3], [2]", "2.0"), Example("[1,2], [3,4]", "2.5")>>) >>

ValidDifficulties == {"easy", "medium", "hard"}

\* a catalog lookup that ignores the difficulty asked for
FallbackDataIgnoringDifficulty(difficulty) == EasyChallenges

\* challenges_by_difficulty.get(difficulty, challenges_by_difficulty['easy'])
_get_fallback_challenge_data(difficulty) ==
  CASE difficulty = "easy" -> EasyChallenges
    [] difficulty = "medium" -> MediumChallenges
    [] difficulty = "hard" -> HardChallenges
    [] OTHER -> EasyChallenges

(***************************************************************************)
(* Challenge dicts a remote server can supply: any JSON object.  The       *)
(* descriptions are shorter than the 200 characters after which            *)
(* _format_mcp_challenges truncates.                                       *)
(***************************************************************************)
RemoteChallenge(keys, name, examples) ==
  [keys |-> keys, id |-> "", name |-> name,
   description |-> "remote description", skills |-> <<"Remote skill">>,
   difficulty |-> "", examples |-> examples, track |-> "Development"]

RemoteGood ==
  RemoteChallenge({"name", "description", "skills", "examples", "track"},
                  "Remote One", <<Example("in", "out")>>)
RemoteNoExamples ==
  RemoteChallenge({"name", "description", "skills"}, "Remote Two", <<>>)
RemoteNoName ==
  RemoteChallenge({"description", "skills", "track"}, "", <<>>)
RemoteNoSkills ==
  RemoteChallenge({"name", "description", "track"}, "Remote Four", <<>>)
RemoteEmptyExamples ==
  RemoteChallenge({"name", "description", "skills", "examples"}, "Remote Five", <<>>)

\* the second example of the record has no 'input'
RemoteBadSecondExample ==
  RemoteChallenge({"name", "description", "skills", "examples"}, "Remote Six",
                  <<Example("in", "out"), [keys |-> {"output"}, input |-> "", output |-> "out"]>>)

RemoteLists ==
  { <<>>,
    <<RemoteGood>>,
    <<RemoteBadSecondExample>>,
    <<RemoteGood, RemoteNoExamples, RemoteNoName, RemoteNoSkills, RemoteEmptyExamples>> }

(***************************************************************************)
(* Values mcp_client.get_challenges / get_skills can hand back: None, a    *)
(* JSON value that is not a container, or a dict; or the call raises.      *)
(* The value under 'challenges' / 'skills' is a list or a non-list.        *)
(***************************************************************************)
ListVal(items) == [isList |-> TRUE, items |-> items]
ScalarVal == [isList |-> FALSE, items |-> <<>>]    \* a truthy JSON number

McpValue(kind, keys, challenges, skills) ==
  [kind |-> kind, keys |-> keys, challenges |-> challenges, skills |-> skills]

McpNotCalled == McpValue("not_called", {}, ListVal(<<>>), ListVal(<<>>))
McpNone == McpValue("None", {}, ListVal(<<>>), ListVal(<<>>))
McpRaised == McpValue("raise", {}, ListVal(<<>>), ListVal(<<>>))
McpScalar == McpValue("scalar", {}, ListVal(<<>>), ListVal(<<>>))
McpEmptyDict == McpValue("dict", {}, ListVal(<<>>), ListVal(<<>>))
McpOtherDict == McpValue("dict", {"raw_text"}, ListVal(<<>>), ListVal(<<>>))

McpChallengesDict(v) == McpValue("dict", {"challenges"}, v, ListVal(<<>>))
McpSkillsDict(v) == McpValue("dict", {"skills"}, ListVal(<<>>), v)

\* the answers that carry no value at all: the request failed
McpFailures == {McpNone, McpRaised}

McpChallengeAnswers ==
  McpFailures \cup {McpScalar, McpEmptyDict, McpOtherDict, McpChallengesDict(ScalarVal)}
    \cup {McpChallengesDict(ListVal(l)) : l \in RemoteLists}

\* Python truthiness of a returned value and of a dict
Truthy(d) == d.kind = "scalar" \/ (d.kind = "dict" /\ d.keys # {})
DictTruthy(c) == c.keys # {}

Min(a, b) == IF a < b THEN a ELSE b
Take(s, n) == SubSeq(s, 1, Min(n, Len(s)))    \* s[:n]

\* str.title() on the strings the validated arguments can be
Title(w) ==
  CASE w = "easy" -> "Easy"
    [] w = "medium" -> "Medium"
    [] w = "hard" -> "Hard"
    [] w = "algorithms" -> "Algorithms"
    [] w = "data-structures" -> "Data-Structures"
    [] w = "dynamic-programming" -> "Dynamic-Programming"
    [] w = "graphs" -> "Graphs"
    [] OTHER -> w

(***************************************************************************)
(* Display texts.                                                          *)
(***************************************************************************)
\* enumerate(challenges, 1): one numbered entry per challenge
_format_challenge_selection(challenges, difficulty) ==
  [kind |-> "selection",
   heading |-> "Select a " \o Title(difficulty) \o " Challenge",
   entries |-> [i \in 1..Len(challenges) |->
      [index |-> i,
       name |-> challenges[i].name,
       description |-> challenges[i].description,
       skills |-> challenges[i].skills,
       example |-> IF "examples" \in challenges[i].keys /\ challenges[i].examples # <<>>
                   THEN <<challenges[i].examples[1]>> ELSE <<>>]]]

FallbackChallengeNames(difficulty) ==
  CASE difficulty = "medium" ->
         <<"Maximum Subarray (Kadane's Algorithm)",
           "Longest Substring Without Repeating Characters",
           "Binary Tree Level Order Traversal",
           "3Sum Problem",
           "Rotated Sorted Array Search">>
    [] difficulty = "hard" ->
         <<"Median of Two Sorted Arrays",
           "N-Queens Problem",
           "Word Ladder",
           "Serialize and Deserialize Binary Tree",
           "Regular Expression Matching">>
    [] OTHER ->
         <<"Two Sum Problem",
           "Valid Parentheses",
           "Palindrome Check",
           "Merge Two Sorted Lists",
           "Remove Duplicates">>

\* the static text catalog (not the structured one)
_get_fallback_challenges(difficulty) ==
  [kind |-> "fallback_text",
   heading |-> Title(difficulty) \o " Coding Challenges",
   entries |-> [i \in 1..Len(FallbackChallengeNames(difficulty)) |->
      [index |-> i, name |-> FallbackChallengeNames(difficulty)[i]]]]

\* every item of the model's remote lists is a dict, so no .get() raises
_format_mcp_challenges(data, difficulty) ==
  LET challenges == IF "challenges" \in data.keys THEN data.challenges.items ELSE <<>>
      shown == Take(challenges, ChallengeDisplayLimit)
  IN IF challenges = <<>>
     THEN _get_fallback_challenges(difficulty)
     ELSE [kind |-> "mcp",
           heading |-> "Topcoder " \o Title(difficulty) \o " Challenges",
           entries |-> [i \in 1..Len(shown) |->
              [index |-> i,
               name |-> IF "name" \in shown[i].keys THEN shown[i].name
                        ELSE "Challenge #" \o ToString(i),
               track |-> IF "track" \in shown[i].keys THEN shown[i].track
                         ELSE "Programming",
               description |-> IF "description" \in shown[i].keys
                               THEN shown[i].description
                               ELSE "No description available"]]]

(***************************************************************************)
(* get_challenges, up to its first await and after it.                     *)
(***************************************************************************)
\* validation that lets an unknown difficulty through
ValidateDifficultyUnclamped(difficulty) == difficulty

ValidateDifficulty(difficulty) ==
  IF difficulty \notin ValidDifficulties THEN "easy" ELSE difficulty

\* lines 445-455: does the try block return the remote list?  A non-dict
\* truthy value raises TypeError on `in`, a non-list under 'challenges'
\* raises TypeError on len(); both are caught by `except Exception`.
McpChallengesUsable(data) ==
  /\ Truthy(data)
  /\ data.kind = "dict"
  /\ "challenges" \in data.keys
  /\ data.challenges.isList

NoRet == [op |-> "none", task |-> 0, args |-> [none |-> TRUE], raised |-> FALSE,
          value |-> [none |-> TRUE], mcp_data |-> McpNotCalled]

Returned(op, t, args, value, data) ==
  [op |-> op, task |-> t, args |-> args, raised |-> FALSE, value |-> value,
   mcp_data |-> data]

DifficultyArgs == ValidDifficulties \cup {"expert"}

(***************************************************************************)
(* The public MCP client object: its fields and one record per invocation  *)
(* of _make_mcp_request.  sent is the log of the posts of the invocation:  *)
(* the endpoint posted to, the loop that posted, the endpoint pass, the    *)
(* method or payload format.  single is the local `result`, the value the  *)
(* last _make_single_mcp_request returned.                                 *)
(***************************************************************************)
MCP_HTTP_ENDPOINT == "https://api.topcoder-dev.com/v6/mcp/mcp"

AlternativeEndpoints == {"https://api.topcoder-dev.com/v6/mcp/sse"}

RECURSIVE SeqsUpTo(_, _)
SeqsUpTo(S, n) ==
  IF n = 0 THEN {<<>>}
  ELSE LET shorter == SeqsUpTo(S, n - 1)
       IN shorter \cup {Append(q, x) : q \in {r \in shorter : Len(r) = n - 1}, x \in S}

\* the values the list of alternative endpoints can have: the default
\* endpoint may be one of its entries, and entries may repeat
EndpointLists == SeqsUpTo(AlternativeEndpoints \cup {MCP_HTTP_ENDPOINT}, MaxEndpoints)

IdleCall ==
  [at |-> "idle", tool_name |-> "", i |-> 0, alt |-> 0, original_endpoint |-> "",
   init |-> "none", init_raised |-> FALSE, rejected |-> 0,
   single |-> McpNotCalled, result |-> McpNotCalled, sent |-> <<>>]

\* the client after MCPClient(MCP_HTTP_ENDPOINT), no request made yet
MCPClient_init(endpoints) ==
  /\ session_id = "None"
  /\ endpoint = MCP_HTTP_ENDPOINT
  /\ MCP_ENDPOINTS_TO_TRY = endpoints
  /\ call = [t \in Tasks |-> IdleCall]

\* module load: lines 136-141 bind the client only when a token is set,
\* line 419 then rebinds the name unconditionally
mcp_client_at_load(token) ==
  LET authenticated == IF token THEN TRUE ELSE FALSE
      public == TRUE
  IN public

NoHistory == [fetched |-> FALSE, selected |-> FALSE]

Init ==
  /\ MCP_SESSION_TOKEN \in BOOLEAN
  /\ mcp_client = mcp_client_at_load(MCP_SESSION_TOKEN)
  /\ selected_challenge = <<>>
  /\ current_phase = "constraints"
  /\ available_challenges = <<>>
  /\ pc = [t \in Tasks |-> "idle"]
  /\ arg = [t \in Tasks |-> ""]
  /\ local = [t \in Tasks |-> ""]
  /\ mcp_data = [t \in Tasks |-> McpNotCalled]
  /\ ret = NoRet
  /\ MCPClient_init(<<>>)
  /\ listed = [u \in Tasks |-> <<>>]
  /\ history = NoHistory

AllIdle == \A t \in Tasks : pc[t] = "idle"

Finish(t) ==
  /\ pc' = [pc EXCEPT ![t] = "idle"]
  /\ arg' = [arg EXCEPT ![t] = ""]
  /\ local' = [local EXCEPT ![t] = ""]
  /\ mcp_data' = [mcp_data EXCEPT ![t] = McpNotCalled]

\* lines 431-442 (and 458-463 without a client): validate, then suspend
GetChallengesCall(t, difficulty) ==
  /\ pc[t] = "idle"
  /\ arg' = [arg EXCEPT ![t] = difficulty]
  /\ local' = [local EXCEPT ![t] = ValidateDifficulty(difficulty)]
  /\ pc' = [pc EXCEPT ![t] = IF mcp_client THEN "gc_mcp" ELSE "gc_sleep"]
  /\ ret' = NoRet
  /\ UNCHANGED <<MCP_SESSION_TOKEN, mcp_client, session, mcp_data>>

\* lines 442-450: the remote call hands back a usable list
GetChallengesMcpSuccess(t, data) ==
  /\ pc[t] = "gc_mcp"
  /\ McpChallengesUsable(data)
  /\ available_challenges' = data.challenges.items
  /\ ret' = Returned("get_challenges", t, [difficulty |-> arg[t]],
                     [display_text |-> _format_mcp_challenges(data, local[t]),
                      challenges |-> data.challenges.items], data)
  /\ Finish(t)
  /\ UNCHANGED <<MCP_SESSION_TOKEN, mcp_client, selected_challenge, current_phase>>

\* lines 442-463: the remote call fails or hands back nothing usable
GetChallengesMcpFail(t, data) ==
  /\ pc[t] = "gc_mcp"
  /\ ~McpChallengesUsable(data)
  /\ mcp_data' = [mcp_data EXCEPT ![t] = data]
  /\ pc' = [pc EXCEPT ![t] = "gc_sleep"]
  /\ UNCHANGED <<MCP_SESSION_TOKEN, mcp_client, session, arg, local, ret>>

\* a fetch that starts the session over
GetChallengesFallbackClearingSelection(t) ==
  /\ pc[t] = "gc_sleep"
  /\ available_challenges' = _get_fallback_challenge_data(local[t])
  /\ selected_challenge' = <<>>
  /\ current_phase' = "constraints"
  /\ ret' = Returned("get_challenges", t, [difficulty |-> arg[t]],
                     [display_text |->
                        _format_challenge_selection(
                          _get_fallback_challenge_data(local[t]), local[t]),
                      challenges |-> _get_fallback_challenge_data(local[t])],
                     mcp_data[t])
  /\ Finish(t)
  /\ UNCHANGED <<MCP_SESSION_TOKEN, mcp_client>>
\* lines 461-467: after the sleep, the structured fallback catalog
GetChallengesFallback(t) ==
  /\ pc[t] = "gc_sleep"
  /\ available_challenges' = _get_fallback_challenge_data(local[t])
  /\ ret' = Returned("get_challenges", t, [difficulty |-> arg[t]],
                     [display_text |->
                        _format_challenge_selection(
                          _get_fallback_challenge_data(local[t]), local[t]),
                      challenges |-> _get_fallback_challenge_data(local[t])],
                     mcp_data[t])
  /\ Finish(t)
  /\ UNCHANGED <<MCP_SESSION_TOKEN, mcp_client, selected_challenge, current_phase>>

(***************************************************************************)
(* Skills.                                                                 *)
(***************************************************************************)
ValidCategories == {"algorithms", "data-structures", "dynamic-programming", "graphs"}

CategoryArgs == ValidCategories \cup {"databases"}

ValidateCategory(category) ==
  IF category \notin ValidCategories THEN "algorithms" ELSE category

FallbackSkillNames(category) ==
  CASE category = "data-structures" ->
         <<"Linked Lists", "Stacks & Queues", "Trees & Binary Trees", "Heaps", "Graphs">>
    [] category = "dynamic-programming" ->
         <<"Memoization", "Tabulation", "Optimal Substructure", "State Transition",
           "Space Optimization">>
    [] category = "graphs" ->
         <<"Graph Representation", "BFS & DFS", "Shortest Paths", "Topological Sorting",
           "Connected Components">>
    [] OTHER ->
         <<"Array Manipulation", "Two Pointers Technique", "Hash Tables",
           "Sorting & Searching", "Recursion & Backtracking">>

_get_fallback_skills(category) ==
  [kind |-> "fallback_skills",
   heading |-> "Recommended " \o Title(category) \o " Skills to Practice",
   entries |-> [i \in 1..Len(FallbackSkillNames(category)) |->
      [name |-> FallbackSkillNames(category)[i]]]]

\* a skill item of a remote list: a dict, or a JSON value that is no dict;
\* its 'category' is a dict with a name, or a string
Skill(isDict, keys, name, categoryIsDict) ==
  [isDict |-> isDict, keys |-> keys, name |-> name,
   description |-> "remote skill description",
   category |-> [isDict |-> categoryIsDict, name |-> "Remote Category"]]

SkillFull == Skill(TRUE, {"name", "description", "category"}, "Skill One", TRUE)
SkillBare == Skill(TRUE, {"name"}, "Skill Two", TRUE)
SkillStrCategory == Skill(TRUE, {"category"}, "", FALSE)
SkillNoDict == Skill(FALSE, {}, "", FALSE)

RemoteSkillLists ==
  { <<>>, <<SkillFull, SkillBare, SkillStrCategory>>, <<SkillFull, SkillNoDict>> }

McpSkillAnswers ==
  McpFailures \cup {McpScalar, McpEmptyDict, McpOtherDict, McpSkillsDict(ScalarVal)}
    \cup {McpSkillsDict(ListVal(l)) : l \in RemoteSkillLists}

\* lines 755-773 for one item (every description of the model is under
\* the 150 characters after which the text is truncated)
FormatSkill(skill, i) ==
  [name |-> IF "name" \in skill.keys THEN skill.name ELSE "Skill #" \o ToString(i),
   category |-> IF "category" \in skill.keys THEN skill.category.name ELSE "Unknown",
   description |-> IF "description" \in skill.keys THEN <<skill.description>> ELSE <<>>]

\* formatting without the `if not skills` test of line 750
FormatMcpSkillsWithoutEmptyTest(data, category) ==
  LET value == IF "skills" \in data.keys THEN data.skills ELSE ListVal(<<>>)
      shown == Take(value.items, SkillDisplayLimit)
  IN IF ~value.isList \/ \E i \in 1..Len(shown) : ~shown[i].isDict
     THEN _get_fallback_skills(category)
     ELSE [kind |-> "mcp_skills",
           heading |-> "Topcoder " \o Title(category) \o " Skills",
           entries |-> [i \in 1..Len(shown) |-> FormatSkill(shown[i], i)]]

\* lines 746-782: an empty list, a non-list (slicing raises TypeError) or a
\* non-dict item (.get raises AttributeError) all end in the fallback text
_format_mcp_skills(data, category) ==
  LET value == IF "skills" \in data.keys THEN data.skills ELSE ListVal(<<>>)
      shown == Take(value.items, SkillDisplayLimit)
  IN IF value.isList /\ value.items = <<>>
     THEN _get_fallback_skills(category)
     ELSE IF ~value.isList \/ \E i \in 1..Len(shown) : ~shown[i].isDict
     THEN _get_fallback_skills(category)
     ELSE [kind |-> "mcp_skills",
           heading |-> "Topcoder " \o Title(category) \o " Skills",
           entries |-> [i \in 1..Len(shown) |-> FormatSkill(shown[i], i)]]

\* line 697: `mcp_data and 'skills' in mcp_data`; `in` on a non-container
\* raises TypeError, caught at line 702
McpSkillsPresent(data) ==
  /\ Truthy(data)
  /\ data.kind = "dict"
  /\ "skills" \in data.keys

\* lines 684-695 (and 705-707 without a client)
GetSkillsCall(t, category) ==
  /\ pc[t] = "idle"
  /\ arg' = [arg EXCEPT ![t] = category]
  /\ local' = [local EXCEPT ![t] = ValidateCategory(category)]
  /\ pc' = [pc EXCEPT ![t] = IF mcp_client THEN "gs_mcp" ELSE "gs_sleep"]
  /\ ret' = NoRet
  /\ UNCHANGED <<MCP_SESSION_TOKEN, mcp_client, session, mcp_data>>

\* lines 695-698: a body with a 'skills' key is formatted and returned
GetSkillsMcpPresent(t, data) ==
  /\ pc[t] = "gs_mcp"
  /\ McpSkillsPresent(data)
  /\ ret' = Returned("get_skills", t, [category |-> arg[t]],
                     _format_mcp_skills(data, local[t]), data)
  /\ Finish(t)
  /\ UNCHANGED <<MCP_SESSION_TOKEN, mcp_client, session>>

\* lines 695-707: no 'skills' key, None, or an exception
GetSkillsMcpFail(t, data) ==
  /\ pc[t] = "gs_mcp"
  /\ ~McpSkillsPresent(data)
  /\ mcp_data' = [mcp_data EXCEPT ![t] = data]
  /\ pc' = [pc EXCEPT ![t] = "gs_sleep"]
  /\ UNCHANGED <<MCP_SESSION_TOKEN, mcp_client, session, arg, local, ret>>

\* lines 705-708
GetSkillsFallback(t) ==
  /\ pc[t] = "gs_sleep"
  /\ ret' = Returned("get_skills", t, [category |-> arg[t]],
                     _get_fallback_skills(local[t]), mcp_data[t])
  /\ Finish(t)
  /\ UNCHANGED <<MCP_SESSION_TOKEN, mcp_client, session>>

(***************************************************************************)
(* select_challenge and its UI handler.                                    *)
(***************************************************************************)
MaxIndex == 6       \* largest index / radio number tried

IndexArgs == (0 - 1)..MaxIndex

\* lines 599-613: the confirmation text; a missing key is a KeyError
SelectionTextRaises(challenge) ==
  \/ "name" \notin challenge.keys
  \/ "description" \notin challenge.keys
  \/ "skills" \notin challenge.keys
  \/ /\ "examples" \in challenge.keys
     /\ \E k \in 1..Min(2, Len(challenge.examples)) : ExampleRaises(challenge.examples[k])

SelectionText(challenge) ==
  [kind |-> "selected",
   name |-> challenge.name,
   description |-> challenge.description,
   skills |-> challenge.skills,
   examples |-> IF "examples" \in challenge.keys /\ challenge.examples # <<>>
                THEN Take(challenge.examples, 2) ELSE <<>>]

\* a range test `challenge_index < 0`: index 0 then reads available[-1]
SelectChallengeZeroBased(available, selected, phase, challenge_index) ==
  IF available = <<>>
  THEN [raised |-> FALSE, value |-> [kind |-> "no_challenges"],
        selected_challenge |-> selected, current_phase |-> phase]
  ELSE IF challenge_index < 0 \/ challenge_index > Len(available)
  THEN [raised |-> FALSE, value |-> [kind |-> "invalid", upper |-> Len(available)],
        selected_challenge |-> selected, current_phase |-> phase]
  ELSE LET chosen == IF challenge_index = 0 THEN available[Len(available)]
                     ELSE available[challenge_index]
       IN IF SelectionTextRaises(chosen)
          THEN [raised |-> TRUE, value |-> [exception |-> "KeyError"],
                selected_challenge |-> <<chosen>>, current_phase |-> "constraints"]
          ELSE [raised |-> FALSE, value |-> SelectionText(chosen),
                selected_challenge |-> <<chosen>>, current_phase |-> "constraints"]

\* a selection that uses the index as a 0-based list index
SelectChallengeUnshifted(available, selected, phase, challenge_index) ==
  IF available = <<>>
  THEN [raised |-> FALSE, value |-> [kind |-> "no_challenges"],
        selected_challenge |-> selected, current_phase |-> phase]
  ELSE IF challenge_index < 1 \/ challenge_index > Len(available)
  THEN [raised |-> FALSE, value |-> [kind |-> "invalid", upper |-> Len(available)],
        selected_challenge |-> selected, current_phase |-> phase]
  ELSE IF challenge_index = Len(available)
  THEN [raised |-> TRUE, value |-> [exception |-> "IndexError"],
        selected_challenge |-> selected, current_phase |-> phase]
  ELSE IF SelectionTextRaises(available[challenge_index + 1])
  THEN [raised |-> TRUE, value |-> [exception |-> "KeyError"],
        selected_challenge |-> <<available[challenge_index + 1]>>,
        current_phase |-> "constraints"]
  ELSE [raised |-> FALSE, value |-> SelectionText(available[challenge_index + 1]),
        selected_challenge |-> <<available[challenge_index + 1]>>,
        current_phase |-> "constraints"]
\* lines 588-613.  The result says what the method returns or raises and
\* what it leaves in selected_challenge and current_phase.
select_challenge(available, selected, phase, challenge_index) ==
  IF available = <<>>
  THEN [raised |-> FALSE, value |-> [kind |-> "no_challenges"],
        selected_challenge |-> selected, current_phase |-> phase]
  ELSE IF challenge_index < 1 \/ challenge_index > Len(available)
  THEN [raised |-> FALSE, value |-> [kind |-> "invalid", upper |-> Len(available)],
        selected_challenge |-> selected, current_phase |-> phase]
  ELSE IF SelectionTextRaises(available[challenge_index])
  THEN [raised |-> TRUE, value |-> [exception |-> "KeyError"],
        selected_challenge |-> <<available[challenge_index]>>,
        current_phase |-> "constraints"]
  ELSE [raised |-> FALSE, value |-> SelectionText(available[challenge_index]),
        selected_challenge |-> <<available[challenge_index]>>,
        current_phase |-> "constraints"]

\* a direct call of the method: an exception reaches the caller
SelectChallenge(t, challenge_index) ==
  LET r == select_challenge(available_challenges, selected_challenge,
                            current_phase, challenge_index)
  IN /\ pc[t] = "idle"
     /\ selected_challenge' = r.selected_challenge
     /\ current_phase' = r.current_phase
     /\ ret' = [op |-> "select_challenge", task |-> t,
                args |-> [challenge_index |-> challenge_index],
                raised |-> r.raised, value |-> r.value, mcp_data |-> McpNotCalled]
     /\ UNCHANGED <<MCP_SESSION_TOKEN, mcp_client, available_challenges,
                    pc, arg, local, mcp_data>>

\* the radio value: None, or "<number>. <name>"
NoChoice == [isNone |-> TRUE, number |-> 0]
Choice(n) == [isNone |-> FALSE, number |-> n]
RadioValues == {NoChoice} \cup {Choice(n) : n \in 1..MaxIndex}

\* lines 1121-1131: int(selected_challenge.split('.')[0]), every exception
\* of select_challenge turned into a message
SelectChallengeHandler(t, choice) ==
  LET r == select_challenge(available_challenges, selected_challenge,
                            current_phase, choice.number)
  IN /\ pc[t] = "idle"
     /\ selected_challenge' = IF choice.isNone THEN selected_challenge
                              ELSE r.selected_challenge
     /\ current_phase' = IF choice.isNone THEN current_phase ELSE r.current_phase
     /\ ret' = Returned("select_challenge_handler", t, [selected_challenge |-> choice],
                        IF choice.isNone THEN [kind |-> "no_selection"]
                        ELSE IF r.raised
                        THEN [kind |-> "handler_error", exception |-> r.value.exception]
                        ELSE r.value,
                        McpNotCalled)
     /\ UNCHANGED <<MCP_SESSION_TOKEN, mcp_client, available_challenges,
                    pc, arg, local, mcp_data>>

(***************************************************************************)
(* user_input strings and str.strip().                                     *)
(***************************************************************************)
RECURSIVE Repeat(_, _)
Repeat(ch, n) == IF n = 0 THEN <<>> ELSE <<ch>> \o Repeat(ch, n - 1)

RECURSIVE LStrip(_)
LStrip(s) == IF s # <<>> /\ Head(s) = " " THEN LStrip(Tail(s)) ELSE s

RECURSIVE RStrip(_)
RStrip(s) ==
  IF s # <<>> /\ s[Len(s)] = " " THEN RStrip(SubSeq(s, 1, Len(s) - 1)) ELSE s

Strip(s) == RStrip(LStrip(s))

\* blanks around a body of letters, or around two words
BodyLens == {0, MinInputLen - 1, MinInputLen}

UserInputs ==
  { Repeat(" ", l) \o Repeat("a", b) \o Repeat(" ", r) :
      l \in 0..MaxPad, b \in BodyLens, r \in 0..MaxPad }
  \cup
  { Repeat(" ", l) \o Repeat("a", 4) \o <<" ">> \o Repeat("b", b) :
      l \in 0..MaxPad, b \in {MinInputLen - 6, MinInputLen - 5} }

(***************************************************************************)
(* The phase guidance selector.                                            *)
(***************************************************************************)
Phases == {"constraints", "ideas", "tests", "code"}

PhaseArgs == Phases \cup {"summary"}

PhaseTitle(phase) ==
  CASE phase = "constraints" -> "Phase 1: Define Constraints"
    [] phase = "ideas" -> "Phase 2: Brainstorm Solution Ideas"
    [] phase = "tests" -> "Phase 3: Design Test Cases"
    [] phase = "code" -> "Phase 4: Structure Your Code"

\* `if self.selected_challenge`: None and the empty dict are falsy
ChallengeSet(selected) == selected # <<>> /\ DictTruthy(selected[1])

\* lines 869-875
challenge_context(selected) ==
  IF ChallengeSet(selected)
  THEN <<[name |-> selected[1].name,
          description |-> selected[1].description,
          example |-> IF "examples" \in selected[1].keys /\ selected[1].examples # <<>>
                      THEN <<selected[1].examples[1]>> ELSE <<>>]>>
  ELSE <<>>

\* the dict literal of lines 877-969 evaluates the f-strings of all four
\* phases, whatever phase is asked for: name and description (lines
\* 872-873), the first example (line 875), then skills (line 913), then
\* examples[0] (line 931)
GuidanceException(selected) ==
  IF ~ChallengeSet(selected) THEN "none"
  ELSE IF "name" \notin selected[1].keys \/ "description" \notin selected[1].keys
  THEN "KeyError"
  ELSE IF "examples" \in selected[1].keys /\ selected[1].examples # <<>>
          /\ ExampleRaises(selected[1].examples[1])
  THEN "KeyError"
  ELSE IF "skills" \notin selected[1].keys THEN "KeyError"
  ELSE IF "examples" \in selected[1].keys /\ selected[1].examples = <<>>
  THEN "IndexError"
  ELSE "none"

\* the part of the template that depends on the session (lines 913, 931)
PhaseInsert(selected, phase) ==
  CASE phase = "ideas" /\ ChallengeSet(selected) ->
         <<[consider |-> selected[1].skills]>>
    [] phase = "tests" /\ ChallengeSet(selected) /\ "examples" \in selected[1].keys ->
         <<[work_through |-> selected[1].examples[1].input]>>
    [] OTHER -> <<>>

\* a lookup whose default is the last phase of the table
GuidanceKeyDefaultCode(phase) == IF phase \in Phases THEN phase ELSE "code"

\* phase_guidance.get(phase, phase_guidance["constraints"])
GuidanceKey(phase) == IF phase \in Phases THEN phase ELSE "constraints"

\* a selector that echoes every non-empty text, blank or not
GuideCanvasPhaseEchoUnstripped(selected, phase, user_input) ==
  IF GuidanceException(selected) # "none"
  THEN [raised |-> TRUE, value |-> [exception |-> GuidanceException(selected)]]
  ELSE [raised |-> FALSE,
        value |->
          [response |->
             [kind |-> "guidance",
              title |-> PhaseTitle(GuidanceKey(phase)),
              template |-> GuidanceKey(phase),
              challenge_context |-> challenge_context(selected),
              insert |-> PhaseInsert(selected, GuidanceKey(phase)),
              echo |-> IF user_input # <<>> THEN <<user_input>> ELSE <<>>],
           phase |-> phase]]
\* lines 865-977: what the method returns, or the exception it raises
guide_canvas_phase(selected, phase, user_input) ==
  IF GuidanceException(selected) # "none"
  THEN [raised |-> TRUE, value |-> [exception |-> GuidanceException(selected)]]
  ELSE [raised |-> FALSE,
        value |->
          [response |->
             [kind |-> "guidance",
              title |-> PhaseTitle(GuidanceKey(phase)),
              template |-> GuidanceKey(phase),
              challenge_context |-> challenge_context(selected),
              insert |-> PhaseInsert(selected, GuidanceKey(phase)),
              echo |-> IF Strip(user_input) # <<>> THEN <<user_input>> ELSE <<>>],
           phase |-> phase]]

\* a selector that advances the session to the phase it renders
GuideCanvasPhaseAdvancing(t, phase, user_input) ==
  LET r == guide_canvas_phase(selected_challenge, phase, user_input)
  IN /\ pc[t] = "idle"
     /\ ret' = [op |-> "guide_canvas_phase", task |-> t,
                args |-> [phase |-> phase, user_input |-> user_input],
                raised |-> r.raised, value |-> r.value, mcp_data |-> McpNotCalled]
     /\ current_phase' = GuidanceKey(phase)
     /\ UNCHANGED <<MCP_SESSION_TOKEN, mcp_client, selected_challenge,
                    available_challenges, pc, arg, local, mcp_data>>

\* a direct call of the method
GuideCanvasPhase(t, phase, user_input) ==
  LET r == guide_canvas_phase(selected_challenge, phase, user_input)
  IN /\ pc[t] = "idle"
     /\ ret' = [op |-> "guide_canvas_phase", task |-> t,
                args |-> [phase |-> phase, user_input |-> user_input],
                raised |-> r.raised, value |-> r.value, mcp_data |-> McpNotCalled]
     /\ UNCHANGED <<MCP_SESSION_TOKEN, mcp_client, session, pc, arg, local, mcp_data>>

\* lines 1144-1147: the call of the selector with the stripped text; an
\* exception becomes an error message
GuidanceOrError(selected, phase, user_input) ==
  IF guide_canvas_phase(selected, phase, Strip(user_input)).raised
  THEN [response |->
          [kind |-> "error",
           exception |->
             guide_canvas_phase(selected, phase, Strip(user_input)).value.exception,
           phase |-> phase],
        phase |-> phase]
  ELSE guide_canvas_phase(selected, phase, Strip(user_input)).value

\* a guardrail without the challenge test of lines 1135-1136
GuidePhaseWithoutChallengeTest(selected, phase, user_input) ==
  IF user_input = <<>> \/ Strip(user_input) = <<>>
  THEN [response |-> [kind |-> "need_input", phase |-> phase], phase |-> phase]
  ELSE IF Len(Strip(user_input)) < MinInputLen
  THEN [response |-> [kind |-> "need_detail", phase |-> phase], phase |-> phase]
  ELSE GuidanceOrError(selected, phase, user_input)

\* a guardrail without the length test of lines 1141-1142
GuidePhaseWithoutLengthTest(selected, phase, user_input) ==
  IF ~ChallengeSet(selected)
  THEN [response |-> [kind |-> "select_first"], phase |-> phase]
  ELSE IF user_input = <<>> \/ Strip(user_input) = <<>>
  THEN [response |-> [kind |-> "need_input", phase |-> phase], phase |-> phase]
  ELSE GuidanceOrError(selected, phase, user_input)

\* lines 1133-1147: the guardrail of the UI
guide_phase(selected, phase, user_input) ==
  IF ~ChallengeSet(selected)
  THEN [response |-> [kind |-> "select_first"], phase |-> phase]
  ELSE IF user_input = <<>> \/ Strip(user_input) = <<>>
  THEN [response |-> [kind |-> "need_input", phase |-> phase], phase |-> phase]
  ELSE IF Len(Strip(user_input)) < MinInputLen
  THEN [response |-> [kind |-> "need_detail", phase |-> phase], phase |-> phase]
  ELSE GuidanceOrError(selected, phase, user_input)

\* a handler that advances the session to the phase it was asked for
GuidePhaseAdvancing(t, phase, user_input) ==
  /\ pc[t] = "idle"
  /\ phase \in Phases
  /\ ret' = Returned("guide_phase", t, [phase |-> phase, user_input |-> user_input],
                     guide_phase(selected_challenge, phase, user_input), McpNotCalled)
  /\ current_phase' = IF guide_phase(selected_challenge, phase, user_input).response.kind
                         = "guidance"
                      THEN phase ELSE current_phase
  /\ UNCHANGED <<MCP_SESSION_TOKEN, mcp_client, selected_challenge,
                 available_challenges, pc, arg, local, mcp_data>>
\* the four buttons call guide_phase with their own phase (lines 1178-1212)
GuidePhase(t, phase, user_input) ==
  /\ pc[t] = "idle"
  /\ phase \in Phases
  /\ ret' = Returned("guide_phase", t, [phase |-> phase, user_input |-> user_input],
                     guide_phase(selected_challenge, phase, user_input), McpNotCalled)
  /\ UNCHANGED <<MCP_SESSION_TOKEN, mcp_client, session, pc, arg, local, mcp_data>>

(***************************************************************************)
(* The UI of one page: one handler at a time (the single-request model of  *)
(* the design), run in the first task slot.  The buttons pass the four     *)
(* phases; the text box is empty, too short or long enough.  The client is *)
(* represented by the answers it hands back: its fields are not read.      *)
(***************************************************************************)
Enter(t) == AllIdle /\ \A u \in Tasks : t <= u

\* the page of user t receives the list its get_challenges returned
Listed(t) == listed' = [listed EXCEPT ![t] = ret'.value.challenges]

\* the history of the session: get_challenges has returned a non-empty list,
\* select_challenge has returned its confirmation
Fetched == history' = [history EXCEPT !.fetched = @ \/ ret'.value.challenges # <<>>]
Selected ==
  history' = [history EXCEPT
                !.selected = @ \/ (~ret'.raised /\ ret'.value.kind = "selected")]

UiInputs ==
  {<<>>, Repeat("a", MinInputLen - 1), Repeat("a", MinInputLen) \o <<" ">>}

Next ==
  \/ \E t \in Tasks, d \in DifficultyArgs :
       Enter(t) /\ GetChallengesCall(t, d) /\ UNCHANGED <<client, listed, history>>
  \/ \E t \in Tasks, data \in McpChallengeAnswers :
       GetChallengesMcpSuccess(t, data) /\ Listed(t) /\ Fetched /\ UNCHANGED client
  \/ \E t \in Tasks, data \in McpChallengeAnswers :
       GetChallengesMcpFail(t, data) /\ UNCHANGED <<client, listed, history>>
  \/ \E t \in Tasks :
       GetChallengesFallback(t) /\ Listed(t) /\ Fetched /\ UNCHANGED client
  \/ \E t \in Tasks, c \in CategoryArgs :
       Enter(t) /\ GetSkillsCall(t, c) /\ UNCHANGED <<client, listed, history>>
  \/ \E t \in Tasks, data \in McpSkillAnswers :
       GetSkillsMcpPresent(t, data) /\ UNCHANGED <<client, listed, history>>
  \/ \E t \in Tasks, data \in McpSkillAnswers :
       GetSkillsMcpFail(t, data) /\ UNCHANGED <<client, listed, history>>
  \/ \E t \in Tasks :
       GetSkillsFallback(t) /\ UNCHANGED <<client, listed, history>>
  \/ \E t \in Tasks, i \in IndexArgs :
       Enter(t) /\ SelectChallenge(t, i) /\ Selected /\ UNCHANGED <<client, listed>>
  \/ \E t \in Tasks, c \in RadioValues :
       Enter(t) /\ SelectChallengeHandler(t, c) /\ Selected /\ UNCHANGED <<client, listed>>
  \/ \E t \in Tasks, p \in Phases, u \in UiInputs :
       Enter(t) /\ GuidePhase(t, p, u) /\ UNCHANGED <<client, listed, history>>

Spec == Init /\ [][Next]_vars

(***************************************************************************)
(* The guidance selector as a function of (session snapshot, phase,        *)
(* user_input): the snapshot is any session a selection can leave behind   *)
(* (SnapshotsCoverSessions checks that under Spec), the phase and the      *)
(* text are arbitrary.                                                     *)
(***************************************************************************)
StorableLists ==
  {_get_fallback_challenge_data(d) : d \in ValidDifficulties} \cup RemoteLists

Snapshots ==
  {<<<<>>, <<>>>>} \cup
  {<<<<l[i]>>, l>> : <<l, i>> \in {<<l, i>> \in StorableLists \X (1..MaxIndex) : i <= Len(l)}}

InitGuide ==
  /\ MCP_SESSION_TOKEN \in BOOLEAN
  /\ mcp_client = mcp_client_at_load(MCP_SESSION_TOKEN)
  /\ \E s \in Snapshots : selected_challenge = s[1] /\ available_challenges = s[2]
  /\ current_phase = "constraints"
  /\ pc = [t \in Tasks |-> "idle"]
  /\ arg = [t \in Tasks |-> ""]
  /\ local = [t \in Tasks |-> ""]
  /\ mcp_data = [t \in Tasks |-> McpNotCalled]
  /\ ret = NoRet
  /\ MCPClient_init(<<>>)
  /\ listed = [u \in Tasks |-> available_challenges]
  /\ history = [fetched |-> selected_challenge # <<>> \/ available_challenges # <<>>,
                selected |-> selected_challenge # <<>>
                               /\ ~SelectionTextRaises(selected_challenge[1])]

NextGuide ==
  \/ \E t \in Tasks, p \in PhaseArgs, u \in UserInputs :
       Enter(t) /\ GuideCanvasPhase(t, p, u) /\ UNCHANGED <<client, listed, history>>
  \/ \E t \in Tasks, p \in Phases, u \in UserInputs :
       Enter(t) /\ GuidePhase(t, p, u) /\ UNCHANGED <<client, listed, history>>

SpecGuide == InitGuide /\ [][NextGuide]_vars

(***************************************************************************)
(* The request loop of the public client.  Every post is an await: an      *)
(* invocation is suspended at the post it has sent (call[t].at names the   *)
(* loop, call[t].i the method or payload format) until the answer comes.   *)
(* An answer is an exception of the post (timeout, network), a status that *)
(* is not 200, or a status 200 body: a JSON dict with 'result', with       *)
(* 'error' only, with neither; a JSON value `in` cannot be applied to; a   *)
(* text with an SSE data line; any other text.                             *)
(***************************************************************************)
ConnectionMethods == <<"initialize", "connect", "handshake">>
RefreshMethods == <<"ping", "status", "tools/list">>
PayloadFormats == <<"tools/call", "tool_name", "tools/call+tool">>
ToolNames == {"query-tc-challenges", "query-tc-skills"}

Answer(kind, value) == [kind |-> kind, value |-> value]

ServerAnswers ==
  {Answer(k, McpNone) :
     k \in {"exception", "http_400_no_session", "http_500", "json_error",
            "json_scalar", "text"}}
  \cup {Answer("json_result", v) :
          v \in {McpChallengesDict(ListVal(<<RemoteGood>>)), McpEmptyDict, McpNone}}
  \cup {Answer("json_plain", v) : v \in {McpOtherDict, McpEmptyDict}}
  \cup {Answer("sse", v) : v \in {McpOtherDict, McpEmptyDict}}

\* the post raises, or `'result' in result` raises TypeError on a JSON
\* number; the enclosing `except Exception` catches both
Raises(answer) == answer.kind \in {"exception", "json_scalar"}

\* lines 184-192: status 200, JSON, 'result' in it or 'error' not in it
ConnectionAccepted(answer) == answer.kind \in {"json_result", "json_plain"}

\* lines 239-246: status 200, JSON, 'result' in it
RefreshAccepted(answer) == answer.kind = "json_result"

\* a JSON-RPC error answer taken for an answer to return
SingleAnswerOutcomeErrorReturns(answer) ==
  CASE answer.kind \in {"json_result", "json_plain", "json_error"} ->
         [returns |-> TRUE, value |-> answer.value]
    [] answer.kind = "sse" /\ Truthy(answer.value) ->
         [returns |-> TRUE, value |-> answer.value]
    [] OTHER -> [returns |-> FALSE, value |-> McpNone]
\* lines 339-361: one payload format's answer returns a value or continues
SingleAnswerOutcome(answer) ==
  CASE answer.kind = "json_result" -> [returns |-> TRUE, value |-> answer.value]
    [] answer.kind = "json_plain" -> [returns |-> TRUE, value |-> answer.value]
    [] answer.kind = "sse" /\ Truthy(answer.value) ->
         [returns |-> TRUE, value |-> answer.value]
    [] OTHER -> [returns |-> FALSE, value |-> McpNone]

\* the loops over the three lists
MoreConnectionMethods(i) == i < Len(ConnectionMethods)
MoreRefreshMethods(i) == i < Len(RefreshMethods)

\* a loop that tries one more payload than the list holds
MoreFormatsOneExtra(i) == i <= Len(PayloadFormats)

MoreFormats(i) == i < Len(PayloadFormats)

\* a refresh that reports the rejection of its three methods
RefreshExhaustedReportingFailure == [session_id |-> "None", returns |-> "False"]

\* lines 249-253: the last resort of _refresh_session
RefreshExhausted == [session_id |-> "public", returns |-> "True"]

\* session.post(self.endpoint, ...): the post goes to the endpoint the
\* client holds when it is sent
Post(c, at, i) ==
  [c EXCEPT !.at = at, !.i = i,
            !.sent = Append(@, [endpoint |-> endpoint, at |-> at, alt |-> c.alt,
                                i |-> i])]

\* the first post of _make_single_mcp_request in endpoint pass k (0: the
\* default pass), to the endpoint ep the client holds by then
StartSingle(c, k, ep) ==
  [c EXCEPT !.at = "single", !.i = 1, !.alt = k,
            !.sent = Append(@, [endpoint |-> ep, at |-> "single", alt |-> k,
                                i |-> 1])]

Done(c, value) == [c EXCEPT !.at = "done", !.i = 0, !.result = value]

\* a request that sets the connection up whatever session_id holds
MakeMcpRequestAlwaysConnecting(t, tool_name) ==
  /\ mcp_client
  /\ call[t].at = "idle"
  /\ call' = [call EXCEPT ![t] =
       Post([IdleCall EXCEPT !.tool_name = tool_name], "connect", 1)]
  /\ UNCHANGED <<MCP_SESSION_TOKEN, mcp_client, session, pc, arg, local, mcp_data,
                 ret, session_id, endpoint, MCP_ENDPOINTS_TO_TRY, listed, history>>
\* lines 276-281 with 255-260, up to the first post
MakeMcpRequest(t, tool_name) ==
  /\ mcp_client
  /\ call[t].at = "idle"
  /\ call' = [call EXCEPT ![t] =
       IF session_id # "None"
       THEN StartSingle([IdleCall EXCEPT !.tool_name = tool_name, !.init = "True"],
                        0, endpoint)
       ELSE Post([IdleCall EXCEPT !.tool_name = tool_name], "connect", 1)]
  /\ UNCHANGED <<MCP_SESSION_TOKEN, mcp_client, session, pc, arg, local, mcp_data,
                 ret, session_id, endpoint, MCP_ENDPOINTS_TO_TRY, listed, history>>

\* lines 177-203: the answer to a connection method
ConnectAnswer(t, answer) ==
  /\ call[t].at = "connect"
  /\ LET c == call[t]
         rejected == [c EXCEPT !.rejected = @ + 1]
     IN IF Raises(answer)
        THEN /\ call' = [call EXCEPT ![t] =
                  Done([c EXCEPT !.init = "False", !.init_raised = TRUE], McpNone)]
             /\ UNCHANGED session_id
        ELSE IF ConnectionAccepted(answer)
        THEN /\ session_id' = "public"
             /\ call' = [call EXCEPT ![t] =
                  StartSingle([c EXCEPT !.init = "True"], 0, endpoint)]
        ELSE /\ call' = [call EXCEPT ![t] =
                  IF MoreConnectionMethods(c.i)
                  THEN Post(rejected, "connect", c.i + 1)
                  ELSE Post(rejected, "refresh", 1)]
             /\ UNCHANGED session_id
  /\ UNCHANGED <<MCP_SESSION_TOKEN, mcp_client, session, pc, arg, local, mcp_data,
                 ret, endpoint, MCP_ENDPOINTS_TO_TRY, listed, history>>

\* lines 205-253 (an exception leaves through lines 201-203)
RefreshAnswer(t, answer) ==
  /\ call[t].at = "refresh"
  /\ LET c == call[t]
         rejected == [c EXCEPT !.rejected = @ + 1]
     IN IF Raises(answer)
        THEN /\ call' = [call EXCEPT ![t] =
                  Done([c EXCEPT !.init = "False", !.init_raised = TRUE], McpNone)]
             /\ UNCHANGED session_id
        ELSE IF RefreshAccepted(answer)
        THEN /\ session_id' = "public"
             /\ call' = [call EXCEPT ![t] =
                  StartSingle([c EXCEPT !.init = "True"], 0, endpoint)]
        ELSE IF MoreRefreshMethods(c.i)
        THEN /\ call' = [call EXCEPT ![t] = Post(rejected, "refresh", c.i + 1)]
             /\ UNCHANGED session_id
        ELSE /\ session_id' = RefreshExhausted.session_id
             /\ call' = [call EXCEPT ![t] =
                  IF RefreshExhausted.returns = "True"
                  THEN StartSingle([rejected EXCEPT !.init = "True"], 0, endpoint)
                  ELSE Done([rejected EXCEPT !.init = "False"], McpNone)]
  /\ UNCHANGED <<MCP_SESSION_TOKEN, mcp_client, session, pc, arg, local, mcp_data,
                 ret, endpoint, MCP_ENDPOINTS_TO_TRY, listed, history>>

\* the alternative endpoints tried whatever the default endpoint returned
SingleAnswerIgnoringResult(t, answer) ==
  /\ call[t].at = "single"
  /\ LET c == call[t]
         outcome == SingleAnswerOutcome(answer)
         over == Raises(answer) \/ outcome.returns \/ ~MoreFormats(c.i)
         result == IF ~Raises(answer) /\ outcome.returns THEN outcome.value ELSE McpNone
         restored == IF c.alt = 0 THEN endpoint ELSE c.original_endpoint
         next == c.alt + 1
         returned == [c EXCEPT !.single = result]
     IN IF ~over
        THEN /\ call' = [call EXCEPT ![t] = Post(c, "single", c.i + 1)]
             /\ UNCHANGED endpoint
        ELSE IF next > Len(MCP_ENDPOINTS_TO_TRY)
        THEN /\ call' = [call EXCEPT ![t] =
                  Done(returned, IF Truthy(result) THEN result ELSE McpNone)]
             /\ endpoint' = restored
        ELSE /\ call' = [call EXCEPT ![t] =
                  StartSingle([returned EXCEPT !.original_endpoint = restored], next,
                              MCP_ENDPOINTS_TO_TRY[next])]
             /\ endpoint' = MCP_ENDPOINTS_TO_TRY[next]
  /\ UNCHANGED <<MCP_SESSION_TOKEN, mcp_client, session, pc, arg, local, mcp_data,
                 ret, session_id, MCP_ENDPOINTS_TO_TRY, listed, history>>
\* lines 292-369: the answer to a payload format; when the request to the
\* endpoint is over, lines 283-290 and the loop of lines 262-274: restore
\* the endpoint of an alternative pass, return a truthy result, or go on to
\* the next alternative endpoint
SingleAnswer(t, answer) ==
  /\ call[t].at = "single"
  /\ LET c == call[t]
         outcome == SingleAnswerOutcome(answer)
         over == Raises(answer) \/ outcome.returns \/ ~MoreFormats(c.i)
         result == IF ~Raises(answer) /\ outcome.returns THEN outcome.value ELSE McpNone
         restored == IF c.alt = 0 THEN endpoint ELSE c.original_endpoint
         next == c.alt + 1
         returned == [c EXCEPT !.single = result]
     IN IF ~over
        THEN /\ call' = [call EXCEPT ![t] = Post(c, "single", c.i + 1)]
             /\ UNCHANGED endpoint
        ELSE IF Truthy(result)
        THEN /\ call' = [call EXCEPT ![t] = Done(returned, result)]
             /\ endpoint' = restored
        ELSE IF next > Len(MCP_ENDPOINTS_TO_TRY)
        THEN /\ call' = [call EXCEPT ![t] = Done(returned, McpNone)]
             /\ endpoint' = restored
        ELSE /\ call' = [call EXCEPT ![t] =
                  StartSingle([returned EXCEPT !.original_endpoint = restored], next,
                              MCP_ENDPOINTS_TO_TRY[next])]
             /\ endpoint' = MCP_ENDPOINTS_TO_TRY[next]
  /\ UNCHANGED <<MCP_SESSION_TOKEN, mcp_client, session, pc, arg, local, mcp_data,
                 ret, session_id, MCP_ENDPOINTS_TO_TRY, listed, history>>

\* the caller takes the value _make_mcp_request returned
TakeResult(t) ==
  /\ call[t].at = "done"
  /\ call' = [call EXCEPT ![t] = IdleCall]
  /\ UNCHANGED <<MCP_SESSION_TOKEN, mcp_client, session, pc, arg, local, mcp_data,
                 ret, session_id, endpoint, MCP_ENDPOINTS_TO_TRY, listed, history>>

(***************************************************************************)
(* The client on its own: one request at a time, any list of alternative   *)
(* endpoints, any answer to every post.  Every post carries a total        *)
(* timeout of 30 seconds (lines 175, 333), so a post that is sent is       *)
(* answered or raises: the fairness of SpecClientFair.                     *)
(***************************************************************************)
InitClient ==
  /\ MCP_SESSION_TOKEN \in BOOLEAN
  /\ mcp_client = mcp_client_at_load(MCP_SESSION_TOKEN)
  /\ selected_challenge = <<>>
  /\ current_phase = "constraints"
  /\ available_challenges = <<>>
  /\ pc = [t \in Tasks |-> "idle"]
  /\ arg = [t \in Tasks |-> ""]
  /\ local = [t \in Tasks |-> ""]
  /\ mcp_data = [t \in Tasks |-> McpNotCalled]
  /\ ret = NoRet
  /\ \E endpoints \in EndpointLists : MCPClient_init(endpoints)
  /\ listed = [u \in Tasks |-> <<>>]
  /\ history = NoHistory

NoCall == \A t \in Tasks : call[t].at = "idle"

EnterClient(t) == NoCall /\ \A u \in Tasks : t <= u

PostAnswered ==
  \E t \in Tasks, answer \in ServerAnswers :
    ConnectAnswer(t, answer) \/ RefreshAnswer(t, answer) \/ SingleAnswer(t, answer)

NextClient ==
  \/ \E t \in Tasks, tool_name \in ToolNames : EnterClient(t) /\ MakeMcpRequest(t, tool_name)
  \/ \E t \in Tasks, answer \in ServerAnswers : ConnectAnswer(t, answer)
  \/ \E t \in Tasks, answer \in ServerAnswers : RefreshAnswer(t, answer)
  \/ \E t \in Tasks, answer \in ServerAnswers : SingleAnswer(t, answer)
  \/ \E t \in Tasks : TakeResult(t)

SpecClient == InitClient /\ [][NextClient]_vars

SpecClientFair == SpecClient /\ WF_vars(PostAnswered)
(***************************************************************************)
(* Several users of the one interface: create_gradio_interface builds one  *)
(* ProfessorAlGorithm (line 982) and every page's handlers close over it.  *)
(* Task t is the handler running for user t; handlers of different users   *)
(* interleave at the awaits of get_challenges.  A user selects from the    *)
(* list the page shows, the list the user's last get_challenges returned.  *)
(***************************************************************************)
UserDifficulties == {"easy", "medium"}

UserAnswers == {McpNone, McpChallengesDict(ListVal(<<RemoteGood>>))}

NextUsers ==
  \/ \E t \in Tasks, d \in UserDifficulties :
       GetChallengesCall(t, d) /\ UNCHANGED <<client, listed, history>>
  \/ \E t \in Tasks, data \in UserAnswers :
       GetChallengesMcpSuccess(t, data) /\ Listed(t) /\ Fetched /\ UNCHANGED client
  \/ \E t \in Tasks, data \in UserAnswers :
       GetChallengesMcpFail(t, data) /\ UNCHANGED <<client, listed, history>>
  \/ \E t \in Tasks :
       GetChallengesFallback(t) /\ Listed(t) /\ Fetched /\ UNCHANGED client
  \/ \E t \in Tasks : \E i \in 1..Len(listed[t]) :
       SelectChallenge(t, i) /\ Selected /\ UNCHANGED <<client, listed>>

SpecUsers == Init /\ [][NextUsers]_vars

(***************************************************************************)
(* The one module-level client under several requests at a time: line 419  *)
(* creates one MCPClient, every handler awaits its requests on it (lines   *)
(* 442, 696), and the event loop runs another request whenever one waits   *)
(* for the answer to a post.  Every task makes one request.                *)
(***************************************************************************)
SharedAnswers ==
  {Answer("http_500", McpNone),
   Answer("json_result", McpChallengesDict(ListVal(<<RemoteGood>>)))}

NextShared ==
  \/ \E t \in Tasks, tool_name \in ToolNames : MakeMcpRequest(t, tool_name)
  \/ \E t \in Tasks :    \* the server accepts the first connection method
       ConnectAnswer(t, Answer("json_result", McpEmptyDict))
  \/ \E t \in Tasks, answer \in SharedAnswers : SingleAnswer(t, answer)

SpecShared == InitClient /\ [][NextShared]_vars

(***************************************************************************)
(* The pattern detector detect(title, description) of the design.  A text  *)
(* is a sequence of characters; the texts of the model are up to MaxWords  *)
(* words of a small vocabulary, separated by blanks.  The table holds the  *)
(* entries the design names (array, tree, two_pointers); each complexity   *)
(* bucket holds its own name as its keyword.                               *)
(***************************************************************************)
Range(s) == {s[i] : i \in 1..Len(s)}

\* str.lower() on ASCII letters
LowerChar(ch) ==
  CASE ch = "A" -> "a"
    [] ch = "B" -> "b"
    [] ch = "C" -> "c"
    [] ch = "D" -> "d"
    [] ch = "E" -> "e"
    [] ch = "F" -> "f"
    [] ch = "G" -> "g"
    [] ch = "H" -> "h"
    [] ch = "I" -> "i"
    [] ch = "J" -> "j"
    [] ch = "K" -> "k"
    [] ch = "L" -> "l"
    [] ch = "M" -> "m"
    [] ch = "N" -> "n"
    [] ch = "O" -> "o"
    [] ch = "P" -> "p"
    [] ch = "Q" -> "q"
    [] ch = "R" -> "r"
    [] ch = "S" -> "s"
    [] ch = "T" -> "t"
    [] ch = "U" -> "u"
    [] ch = "V" -> "v"
    [] ch = "W" -> "w"
    [] ch = "X" -> "x"
    [] ch = "Y" -> "y"
    [] ch = "Z" -> "z"
    [] OTHER -> ch

Lower(text) == [i \in 1..Len(text) |-> LowerChar(text[i])]

\* `keyword in text`
Contains(text, keyword) ==
  \E i \in 1..(Len(text) - Len(keyword) + 1) :
    SubSeq(text, i, i + Len(keyword) - 1) = keyword

\* text.count(keyword)
Occurrences(text, keyword) ==
  Cardinality({i \in 1..(Len(text) - Len(keyword) + 1) :
                 SubSeq(text, i, i + Len(keyword) - 1) = keyword})

Entry(category, pattern_name, keywords) ==
  [category |-> category, pattern_name |-> pattern_name, keywords |-> keywords]

KeywordTable ==
  << Entry("data_structures", "array", << <<"a", "r", "r", "a", "y">> >>),
     Entry("data_structures", "tree", << <<"t", "r", "e", "e">> >>),
     Entry("algorithms", "two_pointers", << <<"p", "a", "i", "r">>, <<"s", "u", "m">> >>) >>

BucketOrder == <<"easy", "medium", "hard">>

ComplexityBuckets ==
  [easy |-> << <<"e", "a", "s", "y">> >>,
   medium |-> << <<"m", "e", "d", "i", "u", "m">> >>,
   hard |-> << <<"h", "a", "r", "d">> >>]

ApproachTable ==
  [array |-> {"Array traversal", "Two pointers technique"},
   tree |-> {"Tree traversal"},
   two_pointers |-> {"Two pointers technique"}]

\* the combined text: lower-cased "title description"
CombinedText(title, description) == Lower(title \o <<" ">> \o description)

\* an entry that records the first keyword found only
MatchedKeywordsFirstOnly(entry, text) ==
  LET found == {i \in 1..Len(entry.keywords) : Contains(text, entry.keywords[i])}
  IN {entry.keywords[i] : i \in {j \in found : \A k \in found : j <= k}}

\* every keyword of the entry found in the text
MatchedKeywords(entry, text) ==
  {k \in Range(entry.keywords) : Contains(text, k)}

PatternMatch(entry, text) ==
  [category |-> entry.category, pattern_name |-> entry.pattern_name,
   matched_keywords |-> MatchedKeywords(entry, text)]

\* a detector that emits every entry of the table
DetectedPatternsUnfiltered(text) ==
  [i \in 1..Len(KeywordTable) |-> PatternMatch(KeywordTable[i], text)]

\* the entries with a keyword in the text, in table order
DetectedPatterns(text) ==
  LET Matches(entry) == \E k \in Range(entry.keywords) : Contains(text, k)
      entries == SelectSeq(KeywordTable, Matches)
  IN [i \in 1..Len(entries) |-> PatternMatch(entries[i], text)]

RECURSIVE SumOccurrences(_, _)
SumOccurrences(text, keywords) ==
  IF keywords = <<>> THEN 0
  ELSE Occurrences(text, Head(keywords)) + SumOccurrences(text, Tail(keywords))

BucketCount(text, bucket) == SumOccurrences(text, ComplexityBuckets[bucket])

\* a scan that lets a later bucket with an equal count win
FirstMaximumLastWins(text, buckets, best) ==
  LET step[i \in 0..Len(buckets)] ==
        IF i = 0 THEN best
        ELSE IF BucketCount(text, buckets[i]) >= BucketCount(text, step[i - 1])
             THEN buckets[i] ELSE step[i - 1]
  IN step[Len(buckets)]

\* max(buckets, key=count): a later bucket wins with a greater count only
FirstMaximum(text, buckets, best) ==
  LET step[i \in 0..Len(buckets)] ==
        IF i = 0 THEN best
        ELSE IF BucketCount(text, buckets[i]) > BucketCount(text, step[i - 1])
             THEN buckets[i] ELSE step[i - 1]
  IN step[Len(buckets)]

complexity_estimate(text) == FirstMaximum(text, Tail(BucketOrder), Head(BucketOrder))

suggested_approaches(patterns) ==
  UNION {ApproachTable[patterns[i].pattern_name] : i \in 1..Len(patterns)}

detect(title, description) ==
  LET text == CombinedText(title, description)
  IN [detected_patterns |-> DetectedPatterns(text),
      suggested_approaches |-> suggested_approaches(DetectedPatterns(text)),
      complexity_estimate |-> complexity_estimate(text)]

(***************************************************************************)
(* The characters of the names and descriptions of the challenges of the   *)
(* model, for the functions that read a text character by character.       *)
(***************************************************************************)
Characters(text) ==
  CASE text = "" -> <<>>
    [] text = "Two Sum Problem" ->
         <<"T", "w", "o", " ", "S", "u", "m", " ", "P", "r", "o", "b", "l",
           "e", "m">>
    [] text = "Given an array of integers and a target sum, find two numbers that add up to the target." ->
         <<"G", "i", "v", "e", "n", " ", "a", "n", " ", "a", "r", "r", "a",
           "y", " ", "o", "f", " ", "i", "n", "t", "e", "g", "e", "r", "s",
           " ", "a", "n", "d", " ", "a", " ", "t", "a", "r", "g", "e", "t",
           " ", "s", "u", "m", ",", " ", "f", "i", "n", "d", " ", "t", "w",
           "o", " ", "n", "u", "m", "b", "e", "r", "s", " ", "t", "h", "a",
           "t", " ", "a", "d", "d", " ", "u", "p", " ", "t", "o", " ", "t",
           "h", "e", " ", "t", "a", "r", "g", "e", "t", ".">>
    [] text = "Valid Parentheses" ->
         <<"V", "a", "l", "i", "d", " ", "P", "a", "r", "e", "n", "t", "h",
           "e", "s", "e", "s">>
    [] text = "Given a string containing just the characters '(', ')', '{', '}', '[' and ']', determine if the input string is valid." ->
         <<"G", "i", "v", "e", "n", " ", "a", " ", "s", "t", "r", "i", "n",
           "g", " ", "c", "o", "n", "t", "a", "i", "n", "i", "n", "g", " ",
           "j", "u", "s", "t", " ", "t", "h", "e", " ", "c", "h", "a", "r",
           "a", "c", "t", "e", "r", "s", " ", "'", "(", "'", ",", " ", "'",
           ")", "'", ",", " ", "'", "{", "'", ",", " ", "'", "}", "'", ",",
           " ", "'", "[", "'", " ", "a", "n", "d", " ", "'", "]", "'", ",",
           " ", "d", "e", "t", "e", "r", "m", "i", "n", "e", " ", "i", "f",
           " ", "t", "h", "e", " ", "i", "n", "p", "u", "t", " ", "s", "t",
           "r", "i", "n", "g", " ", "i", "s", " ", "v", "a", "l", "i", "d",
           ".">>
    [] text = "Palindrome Check" ->
         <<"P", "a", "l", "i", "n", "d", "r", "o", "m", "e", " ", "C", "h",
           "e", "c", "k">>
    [] text = "Determine if a given string reads the same forward and backward." ->
         <<"D", "e", "t", "e", "r", "m", "i", "n", "e", " ", "i", "f", " ",
           "a", " ", "g", "i", "v", "e", "n", " ", "s", "t", "r", "i", "n",
           "g", " ", "r", "e", "a", "d", "s", " ", "t", "h", "e", " ", "s",
           "a", "m", "e", " ", "f", "o", "r", "w", "a", "r", "d", " ", "a",
           "n", "d", " ", "b", "a", "c", "k", "w", "a", "r", "d", ".">>
    [] text = "Merge Two Sorted Lists" ->
         <<"M", "e", "r", "g", "e", " ", "T", "w", "o", " ", "S", "o", "r",
           "t", "e", "d", " ", "L", "i", "s", "t", "s">>
    [] text = "Merge two sorted linked lists and return it as a new sorted list." ->
         <<"M", "e", "r", "g", "e", " ", "t", "w", "o", " ", "s", "o", "r",
           "t", "e", "d", " ", "l", "i", "n", "k", "e", "d", " ", "l", "i",
           "s", "t", "s", " ", "a", "n", "d", " ", "r", "e", "t", "u", "r",
           "n", " ", "i", "t", " ", "a", "s", " ", "a", " ", "n", "e", "w",
           " ", "s", "o", "r", "t", "e", "d", " ", "l", "i", "s", "t", ".">>
    [] text = "Remove Duplicates" ->
         <<"R", "e", "m", "o", "v", "e", " ", "D", "u", "p", "l", "i", "c",
           "a", "t", "e", "s">>
    [] text = "Remove duplicates from a sorted array in-place." ->
         <<"R", "e", "m", "o", "v", "e", " ", "d", "u", "p", "l", "i", "c",
           "a", "t", "e", "s", " ", "f", "r", "o", "m", " ", "a", " ", "s",
           "o", "r", "t", "e", "d", " ", "a", "r", "r", "a", "y", " ", "i",
           "n", "-", "p", "l", "a", "c", "e", ".">>
    [] text = "Maximum Subarray (Kadane's Algorithm)" ->
         <<"M", "a", "x", "i", "m", "u", "m", " ", "S", "u", "b", "a", "r",
           "r", "a", "y", " ", "(", "K", "a", "d", "a", "n", "e", "'", "s",
           " ", "A", "l", "g", "o", "r", "i", "t", "h", "m", ")">>
    [] text = "Find the contiguous subarray within a one-dimensional array that has the largest sum." ->
         <<"F", "i", "n", "d", " ", "t", "h", "e", " ", "c", "o", "n", "t",
           "i", "g", "u", "o", "u", "s", " ", "s", "u", "b", "a", "r", "r",
           "a", "y", " ", "w", "i", "t", "h", "i", "n", " ", "a", " ", "o",
           "n", "e", "-", "d", "i", "m", "e", "n", "s", "i", "o", "n", "a",
           "l", " ", "a", "r", "r", "a", "y", " ", "t", "h", "a", "t", " ",
           "h", "a", "s", " ", "t", "h", "e", " ", "l", "a", "r", "g", "e",
           "s", "t", " ", "s", "u", "m", ".">>
    [] text = "Longest Substring Without Repeating Characters" ->
         <<"L", "o", "n", "g", "e", "s", "t", " ", "S", "u", "b", "s", "t",
           "r", "i", "n", "g", " ", "W", "i", "t", "h", "o", "u", "t", " ",
           "R", "e", "p", "e", "a", "t", "i", "n", "g", " ", "C", "h", "a",
           "r", "a", "c", "t", "e", "r", "s">>
    [] text = "Find the length of the longest substring without repeating characters." ->
         <<"F", "i", "n", "d", " ", "t", "h", "e", " ", "l", "e", "n", "g",
           "t", "h", " ", "o", "f", " ", "t", "h", "e", " ", "l", "o", "n",
           "g", "e", "s", "t", " ", "s", "u", "b", "s", "t", "r", "i", "n",
           "g", " ", "w", "i", "t", "h", "o", "u", "t", " ", "r", "e", "p",
           "e", "a", "t", "i", "n", "g", " ", "c", "h", "a", "r", "a", "c",
           "t", "e", "r", "s", ".">>
    [] text = "Median of Two Sorted Arrays" ->
         <<"M", "e", "d", "i", "a", "n", " ", "o", "f", " ", "T", "w", "o",
           " ", "S", "o", "r", "t", "e", "d", " ", "A", "r", "r", "a", "y",
           "s">>
    [] text = "Find the median of two sorted arrays with optimal time complexity." ->
         <<"F", "i", "n", "d", " ", "t", "h", "e", " ", "m", "e", "d", "i",
           "a", "n", " ", "o", "f", " ", "t", "w", "o", " ", "s", "o", "r",
           "t", "e", "d", " ", "a", "r", "r", "a", "y", "s", " ", "w", "i",
           "t", "h", " ", "o", "p", "t", "i", "m", "a", "l", " ", "t", "i",
           "m", "e", " ", "c", "o", "m", "p", "l", "e", "x", "i", "t", "y",
           ".">>
    [] text = "Remote One" ->
         <<"R", "e", "m", "o", "t", "e", " ", "O", "n", "e">>
    [] text = "Remote Two" ->
         <<"R", "e", "m", "o", "t", "e", " ", "T", "w", "o">>
    [] text = "Remote Four" ->
         <<"R", "e", "m", "o", "t", "e", " ", "F", "o", "u", "r">>
    [] text = "Remote Five" ->
         <<"R", "e", "m", "o", "t", "e", " ", "F", "i", "v", "e">>
    [] text = "Remote Six" ->
         <<"R", "e", "m", "o", "t", "e", " ", "S", "i", "x">>
    [] text = "remote description" ->
         <<"r", "e", "m", "o", "t", "e", " ", "d", "e", "s", "c", "r", "i",
           "p", "t", "i", "o", "n">>

\* lines 971-977: the document is the phase title, the phase template and,
\* for a text that is not blank, the "Your Input" line; nothing else
document_lines(response) ==
  <<[part |-> "title", of |-> response.title],
    [part |-> "guidance", of |-> response.template]>>
  \o (IF response.echo # <<>> THEN <<[part |-> "your_input", of |-> ""]>> ELSE <<>>)

\* the pairs (phase, pattern_name) of the tip table of the design that hold
\* a tip: two_pointers has none for "tests", tree none for "code"
PhaseTips ==
  (Phases \X {"array", "tree", "two_pointers"})
    \ {<<"tests", "two_pointers">>, <<"code", "tree">>}

\* the tip lines of the design for a phase: those of the first two detected
\* patterns, a pattern without a tip for the phase skipped
pattern_tips(phase, detected_patterns) ==
  LET first == Take(detected_patterns, 2)
      HasTip(p) == <<phase, p.pattern_name>> \in PhaseTips
      tipped == SelectSeq(first, HasTip)
  IN [i \in 1..Len(tipped) |-> [part |-> "pattern_tip", of |-> tipped[i].pattern_name]]
\* the texts of the model
Vocabulary ==
  {<<"T", "r", "e", "e">>,
   <<"s", "t", "r", "e", "e", "t">>,
   <<"a", "r", "r", "a", "y">>,
   <<"S", "u", "m">>,
   <<"p", "a", "i", "r">>,
   <<"e", "a", "s", "y">>,
   <<"m", "e", "d", "i", "u", "m">>,
   <<"h", "a", "r", "d">>,
   <<"x", "y", "z">>}

RECURSIVE Sentences(_)
Sentences(n) ==
  IF n = 0 THEN {<<>>}
  ELSE Sentences(n - 1) \cup Vocabulary
         \cup {s \o <<" ">> \o w : s \in Sentences(n - 1) \ {<<>>}, w \in Vocabulary}

Titles == {<<>>, <<"T", "r", "e", "e">>, <<"H", "a", "r", "d">>, <<"x", "y", "z">>}

Descriptions == Sentences(MaxWords)

\* one call of the detector; it reads and writes nothing of the session
Detect(t, title, description) ==
  /\ pc[t] = "idle"
  /\ ret = NoRet
  /\ ret' = Returned("detect", t, [title |-> title, description |-> description],
                     detect(title, description), McpNotCalled)
  /\ UNCHANGED <<MCP_SESSION_TOKEN, mcp_client, session, pc, arg, local, mcp_data,
                 client, listed, history>>

NextDetect ==
  \E t \in Tasks :
    /\ Enter(t)
    /\ ret = NoRet
    /\ \E title \in Titles, description \in Descriptions : Detect(t, title, description)

SpecDetect == Init /\ [][NextDetect]_vars

(***************************************************************************)
(* The single-request client (SimpleMCPClient of app_simple.py, the same   *)
(* code as the token-gated MCPClient of app.py lines 36-119): one post per *)
(* request, the answer mapped to a value.                                  *)
(*                                                                         *)
(* A JSON value is a record of one shape.  keys is what the `in` operator  *)
(* finds in it among 'result', 'error', 'content', 'text': the keys of an  *)
(* object, the items of an array, the substrings of a string.  A string    *)
(* carries what json.loads makes of it: <<>> when it raises                *)
(* JSONDecodeError, <<v>> when it decodes to v.  None is JSON null.        *)
(***************************************************************************)
MaxLines == 2

JNull ==
  [kind |-> "null", keys |-> {}, result |-> <<>>, content |-> <<>>, text |-> <<>>,
   raw_text |-> <<>>, items |-> <<>>, name |-> "", json |-> <<>>]

\* The bodies of a response: sequences of lines.  A line says whether it is
\* indented, whether 'data: ' follows, and what json.loads makes of the rest
\* of the line.
Bodies ==
  LET JNumber == [JNull EXCEPT !.kind = "number"]
      JString(name, keys, json) ==
        [JNull EXCEPT !.kind = "string", !.name = name, !.keys = keys, !.json = json]
      JList(keys, items) == [JNull EXCEPT !.kind = "list", !.keys = keys, !.items = items]
      JObject(keys) == [JNull EXCEPT !.kind = "dict", !.keys = keys]
      Payload == JObject({"challenges"})
      ErrorObject == JObject({"error"})
      ResultOf(v) == [JObject({"result"}) EXCEPT !.result = <<v>>]
      ResultAndErrorOf(v) == [JObject({"result", "error"}) EXCEPT !.result = <<v>>]
      ContentOf(v) == [JObject({"content"}) EXCEPT !.content = <<v>>]
      TextOf(v) == [JObject({"text"}) EXCEPT !.text = <<v>>]
      EncodedString == JString("{\"challenges\": []}", {}, <<Payload>>)
      PlainString == JString("plain", {}, <<>>)
      ResultString == JString("no result", {"result"}, <<>>)
      \* the documents a whole body can be
      JsonDocuments ==
        {JNull, JNumber, PlainString, ResultString, JList({}, <<>>),
         JList({"error"}, <<JString("error", {"error"}, <<>>)>>),
         JObject({}), Payload, ErrorObject,
         ResultOf(Payload), ResultOf(JNull), ResultAndErrorOf(Payload),
         ResultOf(ContentOf(JList({}, <<TextOf(EncodedString)>>)))}
      \* the documents a 'data: ' line can carry
      SseDocuments ==
        {JNull, JNumber, Payload,
         ResultOf(Payload), ResultOf(JNumber),
         ResultOf(ContentOf(JNumber)),
         ResultOf(ContentOf(JList({}, <<>>))),
         ResultOf(ContentOf(JList({}, <<JNumber>>))),
         ResultOf(ContentOf(JList({}, <<TextOf(EncodedString)>>))),
         ResultOf(ContentOf(JList({}, <<TextOf(PlainString)>>))),
         ResultOf(ContentOf(JList({}, <<TextOf(JNumber)>>)))}
      Line(indent, data, json) == [indent |-> indent, data |-> data, json |-> json]
      Lines ==
        {Line(FALSE, TRUE, <<v>>) : v \in SseDocuments}
          \cup {Line(FALSE, FALSE, <<v>>) : v \in JsonDocuments}
          \cup {Line(FALSE, TRUE, <<>>), Line(FALSE, FALSE, <<>>),
                Line(TRUE, TRUE, <<Payload>>), Line(TRUE, FALSE, <<Payload>>)}
  IN SeqsUpTo(Lines, MaxLines)

\* the answers to the post: a timeout, a connection error, or a response
HttpAnswers ==
  {[kind |-> k, status |-> 0, text |-> <<>>] : k \in {"timeout", "connection"}}
    \cup {[kind |-> "response", status |-> s, text |-> text] :
            s \in {200, 404, 500}, text \in Bodies}

\* app_simple.py lines 97-110: what a decoded 'data: ' line yields
SseData(data) ==
  IF data.kind = "dict" /\ "result" \in data.keys
  THEN LET result == data.result[1]
       IN IF result.kind = "dict" /\ "content" \in result.keys
             /\ result.content[1].kind = "list"
             /\ Len(result.content[1].items) > 0
             /\ result.content[1].items[1].kind = "dict"
             /\ "text" \in result.content[1].items[1].keys
          THEN LET text_content == result.content[1].items[1].text[1]
               IN IF text_content.kind = "string" /\ text_content.json # <<>>
                  THEN text_content.json[1]
                  ELSE [JNull EXCEPT !.kind = "dict", !.keys = {"raw_text"},
                                     !.raw_text = <<text_content>>]
          ELSE result
  ELSE data

\* app_simple.py lines 88-116: the first 'data: ' line that decodes.
\* sse_text.strip().split('\n') and line.startswith('data: '): strip takes
\* the indentation of the first line away, of no other line.
_parse_sse_response(sse_text) ==
  LET decoding == {k \in 1..Len(sse_text) :
                     /\ sse_text[k].data
                     /\ k = 1 \/ ~sse_text[k].indent
                     /\ sse_text[k].json # <<>>}
      first == CHOOSE k \in decoding : \A j \in decoding : k <= j
  IN IF decoding = {} THEN JNull ELSE SseData(sse_text[first].json[1])

\* app_simple.py lines 45-82: the body of the try statement.  json.loads of
\* a whole body decodes one document, white space around it allowed.  `in`
\* raises TypeError on a number and on None, subscripting by 'result' raises
\* it on an array and on a string.
RequestBody(answer) ==
  LET Raise == [raised |-> TRUE, value |-> JNull]
      Return(v) == [raised |-> FALSE, value |-> v]
      json_loads(text) == IF Len(text) = 1 /\ ~text[1].data THEN text[1].json ELSE <<>>
  IN IF answer.kind # "response" THEN Raise
     ELSE IF answer.status = 200
     THEN LET decoded == json_loads(answer.text)
          IN IF decoded = <<>> THEN Return(_parse_sse_response(answer.text))
             ELSE LET result == decoded[1]
                  IN IF result.kind \in {"null", "number"} THEN Raise
                     ELSE IF "result" \in result.keys
                     THEN IF result.kind = "dict" THEN Return(result.result[1]) ELSE Raise
                     ELSE IF "error" \in result.keys
                     THEN IF result.kind = "dict" THEN Return(JNull) ELSE Raise
                     ELSE Return(result)
     ELSE Return(JNull)

\* the try statement without its except clause
SimpleMakeMcpRequestUncaught(answer) == RequestBody(answer)

\* app_simple.py lines 42-86
SimpleMCPClient_make_mcp_request(answer) ==
  IF RequestBody(answer).raised
  THEN [raised |-> FALSE, value |-> JNull]
  ELSE RequestBody(answer)

\* app_simple.py lines 132-138: the client exists only with a token
InitSimple ==
  /\ MCP_SESSION_TOKEN \in BOOLEAN
  /\ mcp_client = MCP_SESSION_TOKEN
  /\ selected_challenge = <<>>
  /\ current_phase = "constraints"
  /\ available_challenges = <<>>
  /\ pc = [t \in Tasks |-> "idle"]
  /\ arg = [t \in Tasks |-> ""]
  /\ local = [t \in Tasks |-> ""]
  /\ mcp_data = [t \in Tasks |-> McpNotCalled]
  /\ ret = NoRet
  /\ MCPClient_init(<<>>)
  /\ listed = [u \in Tasks |-> <<>>]
  /\ history = NoHistory

\* app_simple.py lines 140-155 with 118-130: a request of the one caller
SimpleRequest(t, tool_name, answer) ==
  /\ mcp_client
  /\ pc[t] = "idle"
  /\ ret = NoRet
  /\ LET out == SimpleMCPClient_make_mcp_request(answer)
     IN ret' = [Returned("_make_mcp_request", t,
                         [tool_name |-> tool_name, answer |-> answer],
                         out.value, McpNotCalled)
                  EXCEPT !.raised = out.raised]
  /\ UNCHANGED <<MCP_SESSION_TOKEN, mcp_client, session, pc, arg, local, mcp_data,
                 client, listed, history>>

NextSimple ==
  \E t \in Tasks :
    /\ Enter(t)
    /\ ret = NoRet
    /\ \E tool_name \in ToolNames, answer \in HttpAnswers :
         SimpleRequest(t, tool_name, answer)

SpecSimple == InitSimple /\ [][NextSimple]_vars
\* every selected challenge of a reachable session is one of the snapshots
SnapshotsCoverSessions ==
  \E s \in Snapshots : s[1] = selected_challenge

(***************************************************************************)
(* Properties.                                                             *)
(***************************************************************************)
StaticCatalog(difficulty) ==
  [easy |-> EasyChallenges, medium |-> MediumChallenges, hard |-> HardChallenges][difficulty]

NamesOf(entries) == [i \in 1..Len(entries) |-> entries[i].name]

\* C1: whenever the remote fetch of get_challenges failed (the client came
\* back with None, or the call raised), get_challenges returns without
\* raising, the returned list is the static catalog of the difficulty asked
\* for (five items for "easy"), its display lists that catalog, and
\* available_challenges holds the same list.
C1_FallbackOnRemoteFailure ==
  (/\ ret.op = "get_challenges"
   /\ ret.mcp_data \in McpFailures
   /\ ret.args.difficulty \in ValidDifficulties)
  => /\ ~ret.raised
     /\ ret.value.challenges = StaticCatalog(ret.args.difficulty)
     /\ available_challenges = StaticCatalog(ret.args.difficulty)
     /\ ret.value.display_text.kind = "selection"
     /\ NamesOf(ret.value.display_text.entries)
          = NamesOf(StaticCatalog(ret.args.difficulty))
     /\ (ret.args.difficulty = "easy" => Len(ret.value.challenges) = 5)

C1_Witness ==
  /\ ret.op = "get_challenges"
  /\ ret.mcp_data = McpNone
  /\ ret.args.difficulty = "medium"
  /\ available_challenges = MediumChallenges

\* C2 (as claimed): when the remote source answers with a 'challenges' key
\* holding an empty list, the list get_challenges returns and stores is the
\* non-empty static catalog of the difficulty.
C2_EmptyRemoteListFallsBack ==
  (/\ ret.op = "get_challenges"
   /\ ret.mcp_data = McpChallengesDict(ListVal(<<>>))
   /\ ret.args.difficulty \in ValidDifficulties)
  => /\ ret.value.challenges = StaticCatalog(ret.args.difficulty)
     /\ available_challenges = StaticCatalog(ret.args.difficulty)

\* a remote body carrying a non-empty list under 'skills'
HasSkillsList(data) ==
  /\ data.kind = "dict"
  /\ "skills" \in data.keys
  /\ data.skills.isList
  /\ data.skills.items # <<>>

\* C3: whenever the remote skills fetch failed, raised, or answered with a
\* body that has no non-empty 'skills' list, get_skills returns without
\* raising and the text is the static fallback skills of the category.
C3_SkillsFallback ==
  (/\ ret.op = "get_skills"
   /\ ~HasSkillsList(ret.mcp_data)
   /\ ret.args.category \in ValidCategories)
  => /\ ~ret.raised
     /\ ret.value.kind = "fallback_skills"
     /\ ret.value.heading = "Recommended " \o Title(ret.args.category) \o " Skills to Practice"
     /\ NamesOf(ret.value.entries) = FallbackSkillNames(ret.args.category)

C3_Witness ==
  /\ ret.op = "get_skills"
  /\ ret.mcp_data = McpSkillsDict(ListVal(<<>>))
  /\ ret.args.category = "graphs"
  /\ ret.value.kind = "fallback_skills"

RemoteInFlight(t) == pc[t] \in {"gc_mcp", "gs_mcp"}

\* C4 (as claimed): without MCP_SESSION_TOKEN no get_challenges or
\* get_skills call has a remote request in flight, and every such call
\* returns content that did not come from a remote answer.
C4_NoTokenNoRemote ==
  ~MCP_SESSION_TOKEN =>
    /\ \A t \in Tasks : ~RemoteInFlight(t)
    /\ ret.op \in {"get_challenges", "get_skills"} => ret.mcp_data = McpNotCalled

ConstraintsResult == 
  guide_canvas_phase(selected_challenge, "constraints", ret.args.user_input)

\* C5 (as claimed): a guide_canvas_phase call with an unknown phase returns,
\* without raising, exactly what the call with "constraints" returns in the
\* same session for the same user_input.
C5_UnknownPhaseSameResult ==
  (ret.op = "guide_canvas_phase" /\ ret.args.phase \notin Phases)
  => /\ ~ret.raised
     /\ ret.value = ConstraintsResult.value

\* C5 (amended): a guide_canvas_phase call with an unknown phase raises
\* exactly when the call with "constraints" raises (the same exception), and
\* otherwise returns the same response document; the second component of the
\* returned pair is the phase as passed.
C5_UnknownPhaseSameDocument ==
  (ret.op = "guide_canvas_phase" /\ ret.args.phase \notin Phases)
  => /\ ret.raised = ConstraintsResult.raised
     /\ ret.raised => ret.value = ConstraintsResult.value
     /\ ~ret.raised =>
          /\ ret.value.response = ConstraintsResult.value.response
          /\ ret.value.response.title = "Phase 1: Define Constraints"
          /\ ret.value.phase = ret.args.phase

C5_Witness ==
  /\ ret.op = "guide_canvas_phase"
  /\ ret.args.phase = "summary"
  /\ ~ret.raised
  /\ selected_challenge # <<>>
  /\ ret.value.response.echo # <<>>
  /\ ret.value.phase = "summary"

\* what get_challenges returns for a difficulty when the client handed back data
ChallengesValueFor(difficulty, data) ==
  IF McpChallengesUsable(data)
  THEN [display_text |-> _format_mcp_challenges(data, difficulty),
        challenges |-> data.challenges.items]
  ELSE [display_text |-> _format_challenge_selection(StaticCatalog(difficulty), difficulty),
        challenges |-> StaticCatalog(difficulty)]

SkillsValueFor(category, data) ==
  IF McpSkillsPresent(data) THEN _format_mcp_skills(data, category)
  ELSE _get_fallback_skills(category)

\* C6: a get_challenges call with an unknown difficulty asks the remote
\* source for "easy" and returns, without raising, what the call with "easy"
\* returns for the same remote answer; a get_skills call with an unknown
\* category does the same with "algorithms".
C6_UnknownArgumentClamped ==
  /\ \A t \in Tasks :
       /\ (pc[t] \in {"gc_mcp", "gc_sleep"} /\ arg[t] \notin ValidDifficulties)
            => local[t] = "easy"
       /\ (pc[t] \in {"gs_mcp", "gs_sleep"} /\ arg[t] \notin ValidCategories)
            => local[t] = "algorithms"
  /\ (ret.op = "get_challenges" /\ ret.args.difficulty \notin ValidDifficulties)
       => /\ ~ret.raised
          /\ ret.value = ChallengesValueFor("easy", ret.mcp_data)
          /\ available_challenges = ret.value.challenges
  /\ (ret.op = "get_skills" /\ ret.args.category \notin ValidCategories)
       => /\ ~ret.raised
          /\ ret.value = SkillsValueFor("algorithms", ret.mcp_data)

C6_Witness ==
  /\ ret.op = "get_challenges"
  /\ ret.args.difficulty = "expert"
  /\ ret.mcp_data = McpNone
  /\ ret.value.challenges = EasyChallenges

OutOfRange(challenge_index) ==
  \/ available_challenges = <<>>
  \/ challenge_index < 1
  \/ challenge_index > Len(available_challenges)

\* C7: a select_challenge(index) step with index < 1, index >
\* len(available_challenges) or an empty available_challenges returns a
\* message without raising and leaves selected_challenge, current_phase and
\* available_challenges as they were.
C7_OutOfRangeSelectionKeepsSession ==
  [][(ret'.op = "select_challenge" /\ OutOfRange(ret'.args.challenge_index))
       => /\ UNCHANGED session
          /\ ~ret'.raised
          /\ ret'.value.kind \in {"no_challenges", "invalid"}]_vars

C7_Witness ==
  /\ ret.op = "select_challenge"
  /\ ret.args.challenge_index = 0
  /\ ret.value.kind = "invalid"
  /\ selected_challenge # <<>>
  /\ available_challenges # <<>>

SelectorCalled == ret.value.response.kind \in {"guidance", "error"}

\* C9: guide_phase calls guide_canvas_phase only when a challenge is
\* selected and the text, stripped, has at least 10 characters; a text that
\* is empty, blank or shorter than 10 characters, and a missing challenge,
\* get a message asking for the missing step instead; the selector is
\* handed the stripped text.
C9_GuardrailBeforeSelector ==
  ret.op = "guide_phase"
  => /\ SelectorCalled
          => /\ ChallengeSet(selected_challenge)
             /\ Len(Strip(ret.args.user_input)) >= MinInputLen
             /\ Len(ret.args.user_input) >= MinInputLen
     /\ ~(ChallengeSet(selected_challenge) /\ Len(ret.args.user_input) >= MinInputLen)
          => ret.value.response.kind \in {"select_first", "need_input", "need_detail"}
     /\ ret.value.response.kind = "guidance"
          => ret.value.response.echo = <<Strip(ret.args.user_input)>>

C9_Witness ==
  /\ ret.op = "guide_phase"
  /\ ChallengeSet(selected_challenge)
  /\ Len(ret.args.user_input) > MinInputLen
  /\ Len(Strip(ret.args.user_input)) < MinInputLen
  /\ ret.value.response.kind = "need_detail"

\* C10: a guide_canvas_phase step leaves selected_challenge, current_phase
\* and available_challenges unchanged, and what it returns or raises is the
\* function guide_canvas_phase of the selected challenge and its arguments.
C10_GuidanceHasNoSideEffects ==
  [][ret'.op = "guide_canvas_phase"
       => /\ UNCHANGED session
          /\ ret'.raised =
               guide_canvas_phase(selected_challenge, ret'.args.phase,
                                  ret'.args.user_input).raised
          /\ ret'.value =
               guide_canvas_phase(selected_challenge, ret'.args.phase,
                                  ret'.args.user_input).value]_vars

C10_Witness ==
  /\ ret.op = "guide_canvas_phase"
  /\ ret.args.phase = "ideas"
  /\ ~ret.raised
  /\ ret.value.response.insert # <<>>
  /\ current_phase = "constraints"

NonBlank(user_input) == \E i \in 1..Len(user_input) : user_input[i] # " "

\* C11 (as claimed): the document guide_canvas_phase returns carries the
\* echo of user_input whenever user_input is non-empty, and no echo when
\* user_input is empty.
C11_EchoWheneverNonEmpty ==
  (ret.op = "guide_canvas_phase" /\ ~ret.raised)
  => (ret.value.response.echo # <<>> <=> ret.args.user_input # <<>>)

\* C11 (amended): the document guide_canvas_phase returns carries the echo
\* exactly when user_input holds a character that is not a blank; the echo
\* is the text as passed (not stripped), and the length of the text plays no
\* part: a text shorter than the minimum of the UI is echoed too.
C11_EchoWheneverNonBlank ==
  (ret.op = "guide_canvas_phase" /\ ~ret.raised)
  => ret.value.response.echo
       = IF NonBlank(ret.args.user_input) THEN <<ret.args.user_input>> ELSE <<>>

C11_Witness ==
  /\ ret.op = "guide_canvas_phase"
  /\ ~ret.raised
  /\ ret.args.user_input # <<>>
  /\ Head(ret.args.user_input) = " "
  /\ Len(Strip(ret.args.user_input)) < MinInputLen
  /\ ret.value.response.echo = <<ret.args.user_input>>

PostsOf(c, P(_)) == Cardinality({k \in 1..Len(c.sent) : P(c.sent[k])})

InFlight(t) == call[t].at \notin {"idle", "done"}

\* every invocation that has posted is over after finitely many answers
CallTerminates == \A t \in Tasks : InFlight(t) ~> (call[t].at = "done")

\* no endpoint is posted to more than three times by one invocation
AtMostThreePostsPerEndpoint ==
  \A t \in Tasks : \A ep \in AlternativeEndpoints \cup {MCP_HTTP_ENDPOINT} :
    LET To(p) == p.endpoint = ep IN PostsOf(call[t], To) <= 3

BoundedPosts ==
  \A t \in Tasks :
    LET c == call[t]
        Connect(p) == p.at = "connect"
        Refresh(p) == p.at = "refresh"
    IN /\ PostsOf(c, Connect) <= 3
       /\ PostsOf(c, Refresh) <= 3
       /\ \A k \in 0..MaxEndpoints :
            LET Pass(p) == p.at = "single" /\ p.alt = k
            IN PostsOf(c, Pass) <= (IF k <= Len(MCP_ENDPOINTS_TO_TRY) THEN 3 ELSE 0)
       /\ \A k \in 1..Len(c.sent) :
            /\ c.sent[k].at \in {"connect", "refresh", "single"}
            /\ c.sent[k].alt \in 0..MaxEndpoints
       /\ Len(c.sent) <= 6 + 3 * (1 + Len(MCP_ENDPOINTS_TO_TRY))
       /\ c.at = "done" => (c.result = McpNone \/ Truthy(c.result))

C20_SetupFailsOnlyOnException ==
  \A t \in Tasks :
    /\ call[t].init = "False" => call[t].init_raised
    /\ call[t].init = "True" => (session_id = "public" /\ ~call[t].init_raised)
    /\ call[t].rejected = Len(ConnectionMethods) + Len(RefreshMethods)
         => (call[t].init = "True" /\ session_id = "public")

C20_Witness ==
  \E t \in Tasks :
    /\ call[t].rejected = 6
    /\ call[t].init = "True"
    /\ ~call[t].init_raised
    /\ session_id = "public"
    /\ call[t].at = "single"

\* C13: a select_challenge(i) of a user whose last get_challenges returned
\* the list L, with 1 <= i <= len(L), selects L[i-1], whatever calls of
\* other users are interleaved.
C13_SelectsFromOwnList ==
  [][(/\ ret'.op = "select_challenge"
      /\ ret'.args.challenge_index \in 1..Len(listed[ret'.task]))
       => selected_challenge'
            = <<listed[ret'.task][ret'.args.challenge_index]>>]_vars

\* C19: a select_challenge(index) step with 1 <= index <=
\* len(available_challenges) sets selected_challenge to
\* available_challenges[index-1], the index-th entry of the list counted from
\* one, sets current_phase to "constraints" and leaves available_challenges
\* unchanged (also when the confirmation text then raises).
C19_ValidSelectionSetsSession ==
  [][(/\ ret'.op = "select_challenge"
      /\ ret'.args.challenge_index \in 1..Len(available_challenges))
       => /\ selected_challenge' = <<available_challenges[ret'.args.challenge_index]>>
          /\ current_phase' = "constraints"
          /\ available_challenges' = available_challenges]_vars

C19_Witness ==
  /\ ret.op = "select_challenge"
  /\ ~ret.raised
  /\ ret.args.challenge_index = 5
  /\ available_challenges = EasyChallenges
  /\ selected_challenge = <<EasyChallenges[5]>>
  /\ selected_challenge # <<EasyChallenges[4]>>
  /\ current_phase = "constraints"

AllKeywords ==
  UNION {Range(KeywordTable[i].keywords) : i \in 1..Len(KeywordTable)}
    \cup UNION {Range(ComplexityBuckets[b]) : b \in Range(BucketOrder)}

\* neither the title nor the description holds a keyword, in any case
NoKeywordIn(title, description) ==
  \A k \in AllKeywords : ~Contains(Lower(title), k) /\ ~Contains(Lower(description), k)

TreeKeyword == <<"t", "r", "e", "e">>

\* C16: whenever the title or the description holds "tree" (in any case),
\* detected_patterns holds a match of category "data_structures" and
\* pattern_name "tree" whose matched_keywords holds "tree"; and every match
\* emitted records all the keywords of its entry that the title or the
\* description holds, not only the first.
C16_TreeDetectedAllKeywordsRecorded ==
  ret.op = "detect" =>
    LET InText(k) == \/ Contains(Lower(ret.args.title), k)
                     \/ Contains(Lower(ret.args.description), k)
        patterns == ret.value.detected_patterns
    IN /\ InText(TreeKeyword) =>
            \E i \in 1..Len(patterns) :
              /\ patterns[i].category = "data_structures"
              /\ patterns[i].pattern_name = "tree"
              /\ TreeKeyword \in patterns[i].matched_keywords
       /\ \A i \in 1..Len(patterns) : \A j \in 1..Len(KeywordTable) :
            KeywordTable[j].pattern_name = patterns[i].pattern_name =>
              \A k \in Range(KeywordTable[j].keywords) :
                InText(k) => k \in patterns[i].matched_keywords

\* the title "Tree" with a description holding both keywords of
\* two_pointers: the tree match is emitted and both keywords are recorded
C16_Witness ==
  /\ ret.op = "detect"
  /\ ret.args.title = <<"T", "r", "e", "e">>
  /\ ret.args.description = <<"p", "a", "i", "r", " ", "S", "u", "m">>
  /\ Len(ret.value.detected_patterns) = 2
  /\ ret.value.detected_patterns[1].pattern_name = "tree"
  /\ ret.value.detected_patterns[2].matched_keywords
       = {<<"p", "a", "i", "r">>, <<"s", "u", "m">>}

BucketIndex(bucket) == CHOOSE i \in 1..Len(BucketOrder) : BucketOrder[i] = bucket

\* C18: the complexity estimate is a bucket whose keyword-occurrence count
\* in the combined text is the highest, and every bucket defined before it
\* (in the order easy, medium, hard) has a strictly smaller count: on a tie,
\* all counts zero included, the earliest tied bucket is the estimate.
C18_FirstMaximumBucket ==
  ret.op = "detect" =>
    LET text == CombinedText(ret.args.title, ret.args.description)
        estimate == ret.value.complexity_estimate
    IN /\ estimate \in Range(BucketOrder)
       /\ \A b \in Range(BucketOrder) :
            /\ BucketCount(text, b) <= BucketCount(text, estimate)
            /\ BucketIndex(b) < BucketIndex(estimate)
                 => BucketCount(text, b) < BucketCount(text, estimate)

\* "hard medium": medium and hard tie at one occurrence, medium is first
C18_Witness ==
  /\ ret.op = "detect"
  /\ ret.args.title = <<>>
  /\ ret.args.description = <<"h", "a", "r", "d", " ", "m", "e", "d", "i", "u", "m">>
  /\ BucketCount(CombinedText(ret.args.title, ret.args.description), "medium") = 1
  /\ BucketCount(CombinedText(ret.args.title, ret.args.description), "hard") = 1
  /\ ret.value.complexity_estimate = "medium"

IsPatternTip(line) == line.part = "pattern_tip"

SetupPost(p) == p.at \in {"connect", "refresh"}

\* C21: once session_id is set (an _initialize_session has returned True) it
\* is never cleared; a request that starts with session_id set gets True
\* from _initialize_session at once and goes straight to the first payload
\* format; and the invocation of such a request posts no connection or
\* refresh method, however it goes on.
C21_SessionInitialisedOnce ==
  /\ [][session_id = "public" => session_id' = "public"]_vars
  /\ [][\A t \in Tasks :
          (call[t].at = "idle" /\ call'[t].at # "idle" /\ session_id = "public")
            => /\ call'[t].init = "True"
               /\ call'[t].at = "single"
               /\ call'[t].sent
                    = <<[endpoint |-> endpoint, at |-> "single", alt |-> 0, i |-> 1]>>]_vars
  /\ [](\A t \in Tasks :
          (call[t].sent # <<>> /\ ~SetupPost(call[t].sent[1]))
            => PostsOf(call[t], SetupPost) = 0)

\* a request made with the session set is over after its three payload
\* formats, none of its posts a setup post
C21_Witness ==
  \E t \in Tasks :
    /\ session_id = "public"
    /\ call[t].at = "done"
    /\ call[t].init = "True"
    /\ call[t].rejected = 0
    /\ Len(call[t].sent) = 3
    /\ PostsOf(call[t], SetupPost) = 0

\* the answers the statement of C22 counts as failures of a payload format,
\* and the answers that carry something to return
FormatFailed(answer) ==
  answer.kind \in {"http_400_no_session", "http_500", "json_error", "text"}

FormatUsable(answer) == answer.kind \in {"json_result", "json_plain", "sse"}

\* the step sends the next payload format of the same endpoint pass
NextFormatSent(c, d) ==
  /\ d.at = "single"
  /\ d.alt = c.alt
  /\ d.sent = Append(c.sent, [endpoint |-> d.sent[Len(d.sent)].endpoint,
                              at |-> "single", alt |-> c.alt, i |-> c.i + 1])

\* the step ends _make_single_mcp_request
SingleReturned(c, d) == ~(d.at = "single" /\ d.alt = c.alt)

\* C22 as stated: the payload formats are sent in the order 1, 2, 3, format
\* k+1 only after format k was answered with a non-200 status, a JSON-RPC
\* error or an unparsable body; a usable answer is returned and no later
\* format is sent; None is returned only after all three formats failed or
\* an exception occurred.
C22_FormatsInOrderNoneOnlyAfterFailure ==
  [][\A t \in Tasks, answer \in ServerAnswers :
       SingleAnswer(t, answer) =>
         LET c == call[t]
             d == call'[t]
         IN /\ ~SingleReturned(c, d)
                 => /\ NextFormatSent(c, d)
                    /\ d.i = c.i + 1 /\ d.i \in 1..Len(PayloadFormats)
                    /\ FormatFailed(answer)
            /\ FormatUsable(answer) => SingleReturned(c, d) /\ d.single = answer.value
            /\ (SingleReturned(c, d) /\ d.single = McpNone)
                 => \/ c.i = Len(PayloadFormats) /\ FormatFailed(answer)
                    \/ Raises(answer)]_vars

\* an SSE body whose data is empty
EmptySse(answer) == answer.kind = "sse" /\ ~Truthy(answer.value)

\* C22, amended: the payload formats are sent in the order 1, 2, 3, format
\* k+1 only after format k was answered with a non-200 status, a JSON-RPC
\* error, an unparsable body or an SSE body with empty data; any other
\* answer is returned and no later format is sent; None is returned only
\* after the third format failed, after an exception, or for an answer
\* whose 'result' is null.
C22_FormatsInOrder ==
  [][\A t \in Tasks, answer \in ServerAnswers :
       SingleAnswer(t, answer) =>
         LET c == call[t]
             d == call'[t]
             failed == FormatFailed(answer) \/ EmptySse(answer)
         IN /\ ~SingleReturned(c, d)
                 => /\ NextFormatSent(c, d)
                    /\ d.i = c.i + 1 /\ d.i \in 1..Len(PayloadFormats)
                    /\ failed
            /\ (FormatUsable(answer) /\ ~EmptySse(answer))
                 => SingleReturned(c, d) /\ d.single = answer.value
            /\ (SingleReturned(c, d) /\ d.single = McpNone)
                 => \/ c.i = Len(PayloadFormats) /\ failed
                    \/ Raises(answer)
                    \/ answer.kind = "json_result" /\ answer.value = McpNone]_vars

\* format 1 failed, format 2 was answered with a result, format 3 was never
\* sent
C22_Witness ==
  \E t \in Tasks :
    /\ call[t].at = "done"
    /\ Len(call[t].sent) = 2
    /\ call[t].sent[1].at = "single" /\ call[t].sent[1].i = 1
    /\ call[t].sent[2].at = "single" /\ call[t].sent[2].i = 2
    /\ call[t].sent[2].alt = 0
    /\ Truthy(call[t].single) /\ call[t].result = call[t].single

\* the step starts the request to an alternative endpoint
AlternativeStarted(c, d) == d.at = "single" /\ d.alt # c.alt

\* C23: an alternative endpoint is contacted only after the request before
\* it, first of all the one to the default endpoint, returned a value that
\* is not truthy; the alternatives are contacted in list order, none
\* skipped; the first truthy value ends the search and is returned; None is
\* returned when every endpoint failed.
C23_AlternativesInOrderAfterDefault ==
  [][\A t \in Tasks :
       LET c == call[t]
           d == call'[t]
       IN /\ AlternativeStarted(c, d)
               => /\ c.at = "single"
                  /\ d.alt = c.alt + 1
                  /\ d.single # McpNotCalled /\ ~Truthy(d.single)
                  /\ d.sent = Append(c.sent, [endpoint |-> MCP_ENDPOINTS_TO_TRY[d.alt],
                                              at |-> "single", alt |-> d.alt, i |-> 1])
          /\ (c.at = "single" /\ Truthy(d.single))
               => d.at = "done" /\ d.result = d.single /\ d.sent = c.sent
          /\ (c.at = "single" /\ d.at = "done" /\ ~Truthy(d.single))
               => d.result = McpNone /\ c.alt = Len(MCP_ENDPOINTS_TO_TRY)]_vars

\* the default endpoint and the first alternative returned nothing, the
\* second alternative returned the result of the request
C23_Witness ==
  \E t \in Tasks :
    /\ call[t].at = "done"
    /\ call[t].alt = 2
    /\ Truthy(call[t].result)
    /\ \E p, q \in 1..Len(call[t].sent) :
         /\ p < q
         /\ call[t].sent[p].alt = 0 /\ call[t].sent[p].at = "single"
         /\ call[t].sent[q].alt = 1

\* the answer of a finished request of the single-request client
SimpleAnswer == ret.args.answer

\* the answer is a response with status 200 whose body is a JSON object
JsonObjectAnswer ==
  /\ SimpleAnswer.kind = "response" /\ SimpleAnswer.status = 200
  /\ Len(SimpleAnswer.text) = 1
  /\ ~SimpleAnswer.text[1].data
  /\ SimpleAnswer.text[1].json # <<>>
  /\ SimpleAnswer.text[1].json[1].kind = "dict"

\* the answer is a response with status 200 whose body is not JSON
NotJsonAnswer ==
  /\ SimpleAnswer.kind = "response" /\ SimpleAnswer.status = 200
  /\ ~(Len(SimpleAnswer.text) = 1 /\ ~SimpleAnswer.text[1].data
         /\ SimpleAnswer.text[1].json # <<>>)

\* no line of the body is a 'data: ' line that decodes
NoDataLineParses(text) ==
  \A k \in 1..Len(text) :
    ~(text[k].data /\ (k = 1 \/ ~text[k].indent) /\ text[k].json # <<>>)

\* C24: _make_mcp_request of the single-request client never raises; status
\* 200 with a JSON object holding 'result' yields that result; status 200
\* with a JSON object holding 'error' and no 'result' yields None; a status
\* other than 200 yields None; a timeout or another exception yields None; a
\* 200 body that is not JSON yields what SSE parsing yields, which is None
\* when no 'data: ' line decodes.
C24_EveryAnswerMapped ==
  ret.op = "_make_mcp_request" =>
    /\ ~ret.raised
    /\ (JsonObjectAnswer /\ "result" \in SimpleAnswer.text[1].json[1].keys)
         => ret.value = SimpleAnswer.text[1].json[1].result[1]
    /\ (JsonObjectAnswer /\ "error" \in SimpleAnswer.text[1].json[1].keys
          /\ "result" \notin SimpleAnswer.text[1].json[1].keys)
         => ret.value = JNull
    /\ (SimpleAnswer.kind = "response" /\ SimpleAnswer.status # 200) => ret.value = JNull
    /\ SimpleAnswer.kind # "response" => ret.value = JNull
    /\ NotJsonAnswer
         => /\ ret.value = _parse_sse_response(SimpleAnswer.text)
            /\ NoDataLineParses(SimpleAnswer.text) => ret.value = JNull

\* a 200 body that is not JSON: its first line is no 'data: ' line, its
\* second line is one and carries a result, which the request returned
C24_Witness ==
  /\ ret.op = "_make_mcp_request"
  /\ NotJsonAnswer
  /\ Len(SimpleAnswer.text) = 2
  /\ ~SimpleAnswer.text[1].data
  /\ SimpleAnswer.text[2].data /\ ~SimpleAnswer.text[2].indent
  /\ SimpleAnswer.text[2].json # <<>>
  /\ SimpleAnswer.text[2].json[1].keys = {"result"}
  /\ SimpleAnswer.text[2].json[1].result[1].keys = {"challenges"}
  /\ ret.value = SimpleAnswer.text[2].json[1].result[1]

\* C25: no step of get_challenges changes selected_challenge or
\* current_phase: not the call, not the remote answer, not the return, which
\* stores a new available_challenges.
C25_GetChallengesKeepsSelection ==
  [][((\E t \in Tasks : pc'[t] \in {"gc_mcp", "gc_sleep"}) \/ ret'.op = "get_challenges")
       => /\ selected_challenge' = selected_challenge
          /\ current_phase' = current_phase]_vars

\* get_challenges has returned a new list, and the challenge selected before
\* is still selected and is not an entry of the new list
C25_Witness ==
  /\ ret.op = "get_challenges"
  /\ available_challenges = ret.value.challenges
  /\ selected_challenge # <<>>
  /\ \A k \in 1..Len(available_challenges) : available_challenges[k] # selected_challenge[1]

\* C26: whenever get_challenges returns (display_text, challenges), the
\* numbered entries of display_text are the entries of challenges: as many,
\* numbered from 1 in the order of the list, each under the name of its
\* challenge.
C26_DisplayListsReturnedChallenges ==
  ret.op = "get_challenges" =>
    LET entries == ret.value.display_text.entries
        challenges == ret.value.challenges
    IN /\ Len(entries) = Len(challenges)
       /\ \A i \in 1..Len(challenges) :
            /\ i <= Len(entries)
            /\ entries[i].index = i
            /\ "name" \in challenges[i].keys
            /\ entries[i].name = challenges[i].name

\* the messages of select_challenge_handler that report an error
HandlerErrorKinds == {"no_selection", "no_challenges", "invalid", "handler_error"}

\* C27: a call of select_challenge_handler that returns an error message
\* leaves selected_challenge and current_phase as they were.
C27_ErrorLeavesSessionUnchanged ==
  [][(ret'.op = "select_challenge_handler" /\ ret'.value.kind \in HandlerErrorKinds)
       => /\ selected_challenge' = selected_challenge
          /\ current_phase' = current_phase]_vars

\* guide_phase has returned phase guidance
GuidanceRendered == ret.op = "guide_phase" /\ ret.value.response.kind = "guidance"

\* select_challenge, called directly or by its handler, has returned its
\* confirmation
SelectSucceeded ==
  /\ ret.op \in {"select_challenge", "select_challenge_handler"}
  /\ ~ret.raised
  /\ ret.value.kind = "selected"

\* C28: guide_phase renders phase guidance only after some select_challenge
\* call has succeeded; select_challenge succeeds only after some
\* get_challenges call has returned a non-empty list; a selected challenge
\* never becomes None again.
C28_GuidanceAfterSelectionAfterFetch ==
  /\ [](GuidanceRendered => history.selected)
  /\ [](SelectSucceeded => history.fetched)
  /\ [][selected_challenge # <<>> => selected_challenge' # <<>>]_vars

\* C30: in every reachable state of the session current_phase is
\* "constraints": it starts so, select_challenge writes "constraints", and
\* no request for guidance, whatever its phase, writes it.
C30_PhaseAlwaysConstraints == current_phase = "constraints"

\* guidance for a phase other than constraints has been rendered
C30_Witness ==
  /\ ret.op = "guide_phase"
  /\ ret.value.response.kind = "guidance"
  /\ ret.args.phase \in {"ideas", "tests", "code"}
  /\ selected_challenge # <<>>
  /\ current_phase = "constraints"

\* C29: whenever no request is in flight on the shared client, its endpoint
\* is the configured endpoint, also after requests that interleaved at
\* their awaits have all completed.
C29_EndpointRestoredWhenQuiet ==
  (\A t \in Tasks : ~InFlight(t)) => endpoint = MCP_HTTP_ENDPOINT

====
